---- MODULE Spec2Model ----
(***************************************************************************)
(* Model of the reporting scripts of GEP_ARR_Chatbot:                      *)
(*   - finance_dashboard/data_io.py : the series aligner (align_series)    *)
(*   - finance_dashboard/kpi.py : totals, variance summary, totals table   *)
(*   - Automated-Daily-Report/update_gep_report.py : the MTD window, the   *)
(*     targets lookup, the run-rate / attainment computation, the partner  *)
(*     selection and the leads parser                                      *)
(* Data frames are sequences of records; floats are modelled as exact      *)
(* rationals (integer numerators over integer denominators).               *)
(***************************************************************************)
EXTENDS Integers, Sequences, FiniteSets, TLC

VARIABLES
    actuals,            \* uploaded Actual data frame (raw)
    plan,               \* uploaded Plan data frame (raw)
    grid,               \* the frame returned by align_series
    apc,                \* dashboard position: "input" | "aligned" | ...
    period,             \* period argument of build_variance_summary
    entity,             \* entity argument of the kpi functions
    top_n,              \* top_n argument of build_variance_summary
    summary,            \* result of build_variance_summary
    totals_table,       \* result of describe_totals_table
    today,              \* datetime.now() of the report run: [y, m, d]
    df,                 \* rows fetched from the warehouse
    cache,              \* content of targets_cache.json
    days_arg,           \* days_elapsed argument of calculate_metrics
    partner_comparison, \* result of parse_gep_data_for_current_month
    metrics,            \* result of calculate_metrics
    leads_data,         \* result of parse_leads_data
    pc,                 \* report position
    fetched,            \* update_gep_report.main: df is not None
    metrics_file,       \* content of latest_metrics.json
    token,              \* SLACK_BOT_TOKEN is set
    message,            \* result of format_slack_message
    max_retries,        \* max_retries argument of send_to_slack
    attempt,            \* loop index of the posting loop
    posts,              \* the chat_postMessage calls made, in order
    timestamp,          \* value returned by send_to_slack
    breakdown_success,  \* value returned by send_partner_breakdown
    spc,                \* send_slack_update position
    exit_code,          \* exit code of send_slack_update.py
    steps,              \* the run_script calls of run_daily_report.main
    ppc,                \* run_daily_report position
    exit_status,        \* exit status of run_daily_report.py
    refreshed           \* value returned by update_cache_for_current_month

vars == <<actuals, plan, grid, apc, period, entity, top_n, summary,
          totals_table, today, df, cache, days_arg, partner_comparison,
          metrics, leads_data, pc, fetched, metrics_file, token, message,
          max_retries, attempt, posts, timestamp, breakdown_success, spc,
          exit_code, steps, ppc, exit_status, refreshed>>

alignVars == <<actuals, plan, grid, apc, period, entity, top_n, summary,
               totals_table>>
reportVars == <<today, df, cache, days_arg, partner_comparison, metrics,
                leads_data, pc, fetched, metrics_file>>
sendVars == <<token, message, max_retries, attempt, posts, timestamp,
              breakdown_success, spc, exit_code>>
pipelineVars == <<steps, ppc, exit_status, refreshed>>

----------------------------------------------------------------------------
(* Generic helpers *)

RECURSIVE SetSum(_, _)
SetSum(S, f) ==
    IF S = {} THEN 0
    ELSE LET x == CHOOSE y \in S : TRUE IN f[x] + SetSum(S \ {x}, f)

SeqOfLen(S, n) == [1..n -> S]

\* an optional value: None or a value
None == [some |-> FALSE, v |-> 0]
Some(x) == [some |-> TRUE, v |-> x]
\* truth value of an optional number in an `if`
Truthy(t) == t.some /\ t.v # 0

IsLeap(y) == (y % 4 = 0 /\ y % 100 # 0) \/ y % 400 = 0

\* calendar.monthrange(year, month)[1]
MonthRange(y, m) ==
    IF m = 2 THEN (IF IsLeap(y) THEN 29 ELSE 28)
    ELSE IF m \in {4, 6, 9, 11} THEN 30 ELSE 31

----------------------------------------------------------------------------
(* finance_dashboard/data_io.py *)

MaxRows == 2            \* total number of uploaded rows (Actual + Plan)
UploadYear == 2025      \* year of the uploaded periods

NoEntity == "-"         \* placeholder in frames without an entity column
NaT == [m |-> 0, d |-> 0]

\* raw date cells: an unparseable cell, two days of January, one of February
RawDates == {[m |-> 0, d |-> 0], [m |-> 1, d |-> 10], [m |-> 1, d |-> 20],
             [m |-> 2, d |-> 5]}
Metrics == {"Cost", "Rev"}
Entities == {"E1", "E2"}
\* raw value cells: a number or a non-numeric cell
RawValues == {[num |-> TRUE, v |-> 5], [num |-> FALSE, v |-> 0]}

MetricOrd == ("Cost" :> 1) @@ ("Rev" :> 2)
EntityOrd == ("-" :> 0) @@ ("E1" :> 1) @@ ("E2" :> 2)
SeriesNames == {"Actual", "Plan"}

RawRows(hasEntity) ==
    [date : RawDates, metric : Metrics, value : RawValues,
     entity : IF hasEntity THEN Entities ELSE {NoEntity}]

RawFrames(n) ==
    UNION {{[hasEntity |-> h, rows |-> r] : r \in SeqOfLen(RawRows(h), n)} :
              h \in BOOLEAN}

\* pd.to_datetime(errors="coerce") then .dt.to_period("M").dt.to_timestamp("M")
parse_dates_to_month_end(d) ==
    IF d.m = 0 THEN NaT ELSE [m |-> d.m, d |-> MonthRange(UploadYear, d.m)]

\* pd.to_numeric(errors="coerce").fillna(0.0)
coerce_numeric_values(v) == IF v.num THEN v.v ELSE 0

\* prepare_tidy_frame: an empty frame gets the full schema (entity included)
prepare_tidy_frame(frame, series_name) ==
    IF frame.rows = <<>>
    THEN [hasEntity |-> TRUE, rows |-> <<>>]
    ELSE [hasEntity |-> frame.hasEntity,
          rows |-> [i \in DOMAIN frame.rows |->
                      [date   |-> parse_dates_to_month_end(frame.rows[i].date),
                       metric |-> frame.rows[i].metric,
                       value  |-> coerce_numeric_values(frame.rows[i].value),
                       series |-> series_name,
                       entity |-> frame.rows[i].entity]]]

\* the tidy rows with their entity column kept
SelectCommonKeepEntity(rows, withEntity) == rows

\* tidy[common_cols]: drops the entity column unless both frames have it
SelectCommon(rows, withEntity) ==
    [i \in DOMAIN rows |->
        [rows[i] EXCEPT !.entity = IF withEntity THEN @ ELSE NoEntity]]

IdxOf(r) == [date |-> r.date, metric |-> r.metric, entity |-> r.entity]

RECURSIVE DropDuplicates(_)
DropDuplicates(s) ==
    IF s = <<>> THEN <<>>
    ELSE LET init == DropDuplicates(SubSeq(s, 1, Len(s) - 1))
             last == s[Len(s)]
         IN IF \E i \in DOMAIN init : init[i] = last THEN init
            ELSE Append(init, last)

\* sort_values(idx_cols): dates ascending with NaT last, then metric, entity
DateOrd(d) == IF d = NaT THEN 9999 ELSE d.m * 100 + d.d
IdxLess(a, b) ==
    \/ DateOrd(a.date) < DateOrd(b.date)
    \/ /\ a.date = b.date
       /\ \/ MetricOrd[a.metric] < MetricOrd[b.metric]
          \/ /\ a.metric = b.metric
             /\ EntityOrd[a.entity] < EntityOrd[b.entity]

RECURSIVE Insert(_, _)
Insert(s, x) ==
    IF s = <<>> THEN <<x>>
    ELSE IF IdxLess(x, Head(s)) THEN <<x>> \o s
    ELSE <<Head(s)>> \o Insert(Tail(s), x)

RECURSIVE SortValues(_)
SortValues(s) ==
    IF s = <<>> THEN <<>> ELSE Insert(SortValues(Tail(s)), Head(s))

\* combined["series"].drop_duplicates().tolist()
SeriesVals(combined) ==
    DropDuplicates([i \in DOMAIN combined |-> combined[i].series])

\* all_index.assign(key=1).merge(series frame, on="key")
Mesh(all_index, series_vals) ==
    [k \in 1..(Len(all_index) * Len(series_vals)) |->
        [idx    |-> all_index[((k - 1) \div Len(series_vals)) + 1],
         series |-> series_vals[((k - 1) % Len(series_vals)) + 1]]]

\* rows of combined that match one mesh row, in the order of combined
RECURSIVE Matches(_, _)
Matches(combined, cell) ==
    IF combined = <<>> THEN <<>>
    ELSE LET r == Head(combined)
             rest == Matches(Tail(combined), cell)
         IN IF IdxOf(r) = cell.idx /\ r.series = cell.series
            THEN <<r>> \o rest ELSE rest

GridRow(cell, value) ==
    [date |-> cell.idx.date, metric |-> cell.idx.metric,
     entity |-> cell.idx.entity, series |-> cell.series, value |-> value]

\* mesh.merge(combined, how="left") followed by value.fillna(0.0)
RECURSIVE LeftMerge(_, _)
LeftMerge(mesh, combined) ==
    IF mesh = <<>> THEN <<>>
    ELSE LET m == Matches(combined, Head(mesh))
         IN (IF m = <<>> THEN <<GridRow(Head(mesh), 0)>>
             ELSE [i \in DOMAIN m |-> GridRow(Head(mesh), m[i].value)])
            \o LeftMerge(Tail(mesh), combined)

align_series(a, p) ==
    LET tidy_actuals == prepare_tidy_frame(a, "Actual")
        tidy_plan    == prepare_tidy_frame(p, "Plan")
        withEntity   == tidy_actuals.hasEntity /\ tidy_plan.hasEntity
        combined     == SelectCommon(tidy_actuals.rows, withEntity)
                        \o SelectCommon(tidy_plan.rows, withEntity)
        all_index    == SortValues(DropDuplicates(
                            [i \in DOMAIN combined |-> IdxOf(combined[i])]))
        series_vals  == SeriesVals(combined)
        mesh         == Mesh(all_index, series_vals)
    IN [hasEntity |-> withEntity, rows |-> LeftMerge(mesh, combined)]

NoGrid == [hasEntity |-> FALSE, rows |-> <<>>]

----------------------------------------------------------------------------
(* Python arithmetic *)

Abs(n) == IF n < 0 THEN -n ELSE n

RECURSIVE Gcd(_, _)
Gcd(a, b) == IF b = 0 THEN a ELSE Gcd(b, a % b)

RECURSIVE IsPow2(_)
IsPow2(n) == n = 1 \/ (n > 1 /\ n % 2 = 0 /\ IsPow2(n \div 2))

\* n / d is a binary fraction, so the float quotient is exact
Dyadic(n, d) == IsPow2(Abs(d) \div Gcd(Abs(n), Abs(d)))

\* floor and doubled remainder of n / d for d # 0
FloorDiv(n, d) == IF d < 0 THEN (-n) \div (-d) ELSE n \div d
IsTie(n, d) ==
    LET dd == Abs(d)
        nn == IF d < 0 THEN -n ELSE n
    IN 2 * (nn % dd) = dd

\* round(x) of Python 3 for the exact rational x = n / d: half to even
RoundHalfEven(n, d) ==
    LET dd == Abs(d)
        nn == IF d < 0 THEN -n ELSE n
        q  == nn \div dd
        r  == nn % dd
    IN IF 2 * r < dd THEN q
       ELSE IF 2 * r > dd THEN q + 1
       ELSE IF q % 2 = 0 THEN q ELSE q + 1

\* round() of a float that approximates n / d: when n / d is an exact half
\* but the float was computed inexactly, the float lies on either side
PyRound(n, d, exact, up) ==
    IF IsTie(n, d) /\ ~exact THEN FloorDiv(n, d) + up
    ELSE RoundHalfEven(n, d)

----------------------------------------------------------------------------
(* finance_dashboard/kpi.py *)

\* the arrangements of a finite set as a sequence
Arrangements(S) ==
    {s \in [1..Cardinality(S) -> S] :
        \A i, j \in DOMAIN s : i # j => s[i] # s[j]}

\* DataFrame.head(n)
HeadRows(s, n) == SubSeq(s, 1, IF n < Len(s) THEN n ELSE Len(s))

\* the frame with the entity argument ignored
FilterEntityIgnored(tidy, ent) == tidy.rows

\* lines 24-25 and 34-35: `if entity and "entity" in df.columns`
FilterEntity(tidy, ent) ==
    IF ent.some /\ tidy.hasEntity
    THEN SelectSeq(tidy.rows, LAMBDA r : r.entity = ent.v)
    ELSE tidy.rows

FloatBits == 21         \* bits of the significand of an amount (binary64: 53)

RECURSIVE TwoTo(_)
TwoTo(n) == IF n = 0 THEN 1 ELSE 2 * TwoTo(n - 1)

\* the distance between the floats next to the integer a >= 0
RECURSIVE Spacing(_, _)
Spacing(a, s) == IF a < TwoTo(FloatBits) * s THEN s ELSE Spacing(a, 2 * s)

\* the float nearest to the integer x, the even one of two nearest
RoundToFloat(x) ==
    LET a == Abs(x)
        s == Spacing(a, 1)
        q == a \div s
        r == a % s
        m == IF 2 * r < s THEN q
             ELSE IF 2 * r > s THEN q + 1
             ELSE IF q % 2 = 0 THEN q ELSE q + 1
    IN IF x < 0 THEN -(m * s) ELSE m * s

\* `+` and `-` of two floats
FloatAdd(a, b) == RoundToFloat(a + b)
FloatSub(a, b) == RoundToFloat(a - b)

\* the sum of a group as pandas adds it up: in row order, with Kahan's
\* compensation
RECURSIVE group_sum(_, _, _)
group_sum(vals, sumx, compensation) ==
    IF vals = <<>> THEN sumx
    ELSE LET y == FloatSub(Head(vals), compensation)
             t == FloatAdd(sumx, y)
         IN group_sum(Tail(vals), t, FloatSub(FloatSub(t, sumx), y))

SumValues(rows, sel) ==
    LET idx == SelectSeq([i \in DOMAIN rows |-> i], LAMBDA i : i \in sel)
    IN group_sum([k \in DOMAIN idx |-> rows[idx[k]].value], 0, 0)

\* lines 21-29: groupby(["date", "series"]).sum(); the groups of a NaT date
\* are dropped
compute_totals_by_period(tidy, ent) ==
    LET rows == FilterEntity(tidy, ent)
        keys == {<<rows[i].date, rows[i].series>> :
                    i \in {j \in DOMAIN rows : rows[j].date # NaT}}
    IN [k \in keys |->
           SumValues(rows, {i \in DOMAIN rows :
                               rows[i].date = k[1] /\ rows[i].series = k[2]})]

\* lines 62-66: totals[series].get(period, 0.0)
TotalAt(totals, series, per) ==
    IF <<per, series>> \in DOMAIN totals THEN totals[<<per, series>>] ELSE 0

\* the pivot without the selection of the period
PivotOfAllPeriods(tidy, per, ent) ==
    LET rows == FilterEntity(tidy, ent)
        sel == DOMAIN rows
        Cell(m, s) ==
            SumValues(rows, {i \in sel : rows[i].metric = m /\ rows[i].series = s})
        Row(m) == [metric |-> m, Actual |-> Cell(m, "Actual"),
                   Plan |-> Cell(m, "Plan"),
                   Variance |-> FloatSub(Cell(m, "Actual"), Cell(m, "Plan"))]
    IN CHOOSE s \in Arrangements({Row(rows[i].metric) : i \in sel}) :
           \A i, j \in DOMAIN s :
               i < j => MetricOrd[s[i].metric] < MetricOrd[s[j].metric]

\* lines 33-41: the pivot of the period, one row per metric in index order
PivotByMetric(tidy, per, ent) ==
    LET rows == FilterEntity(tidy, ent)
        sel == {i \in DOMAIN rows : per # NaT /\ rows[i].date = per}
        Cell(m, s) ==
            SumValues(rows, {i \in sel : rows[i].metric = m /\ rows[i].series = s})
        Row(m) == [metric |-> m, Actual |-> Cell(m, "Actual"),
                   Plan |-> Cell(m, "Plan"),
                   Variance |-> FloatSub(Cell(m, "Actual"), Cell(m, "Plan"))]
    IN CHOOSE s \in Arrangements({Row(rows[i].metric) : i \in sel}) :
           \A i, j \in DOMAIN s :
               i < j => MetricOrd[s[i].metric] < MetricOrd[s[j].metric]

\* sort_values("Variance", ascending=...): the default kind (quicksort) is
\* not stable, so rows of equal Variance come out in any order
sort_values_by_variance(frame, ascending) ==
    {s \in Arrangements({frame[i] : i \in DOMAIN frame}) :
        \A i, j \in DOMAIN s :
            i < j => IF ascending THEN s[i].Variance <= s[j].Variance
                     ELSE s[i].Variance >= s[j].Variance}

\* lines 32-43: the frames the function may return
compute_variance_by_metric_for_period(tidy, per, ent) ==
    sort_values_by_variance(PivotByMetric(tidy, per, ent), FALSE)

\* lines 46-49: max() skips NaT and is NaT when every date is NaT
latest_period(tidy) ==
    IF tidy.rows = <<>> THEN None
    ELSE LET ds == {tidy.rows[i].date : i \in DOMAIN tidy.rows} \ {NaT}
         IN IF ds = {} THEN Some(NaT)
            ELSE Some(CHOOSE d \in ds : \A e \in ds : DateOrd(e) <= DateOrd(d))

NaN == [nan |-> TRUE, num |-> 0, den |-> 1]

\* the percentage with 0 in place of NaN
variance_pct_zero(total_variance, total_plan) ==
    IF total_plan # 0
    THEN [nan |-> FALSE, num |-> total_variance * 100, den |-> total_plan]
    ELSE [nan |-> FALSE, num |-> 0, den |-> 1]

\* line 68: the rational num / den, or NaN
variance_pct(total_variance, total_plan) ==
    IF total_plan # 0
    THEN [nan |-> FALSE, num |-> total_variance * 100, den |-> total_plan]
    ELSE NaN

\* lines 80-81: list(zip(frame["metric"], frame["Variance"]))
Contributors(frame) ==
    [i \in DOMAIN frame |-> <<frame[i].metric, frame[i].Variance>>]

NoSummary == [status |-> "None"]

\* lines 52-82: the summaries the function may return
build_variance_summary(tidy, per_arg, ent, n) ==
    IF tidy.rows = <<>> THEN {NoSummary}
    ELSE
      LET p1 == IF per_arg.some THEN per_arg ELSE latest_period(tidy)
      IN IF ~p1.some THEN {NoSummary}
         ELSE
           LET per == p1.v
               totals == compute_totals_by_period(tidy, ent)
               total_plan == TotalAt(totals, "Plan", per)
               total_actual == TotalAt(totals, "Actual", per)
               total_variance == FloatSub(total_actual, total_plan)
           IN UNION {
                {[status |-> "ok",
                  period |-> per,
                  total_plan |-> total_plan,
                  total_actual |-> total_actual,
                  total_variance |-> total_variance,
                  total_variance_pct |-> variance_pct(total_variance, total_plan),
                  top_positive_contributors |-> Contributors(HeadRows(top_pos, n)),
                  top_negative_contributors |-> Contributors(HeadRows(top_neg, n))] :
                    top_pos \in sort_values_by_variance(var_by_metric, FALSE),
                    top_neg \in sort_values_by_variance(var_by_metric, TRUE)} :
                var_by_metric \in
                    compute_variance_by_metric_for_period(tidy, per, ent)}

\* lines 85-95: one row per date of the totals, in date order
describe_totals_table(tidy, ent) ==
    LET totals == compute_totals_by_period(tidy, ent)
        Row(d) ==
            LET a == TotalAt(totals, "Actual", d)
                p == TotalAt(totals, "Plan", d)
                v == FloatSub(a, p)
            IN [date |-> d, Actual |-> a, Plan |-> p, Variance |-> v,
                VariancePct |-> IF p # 0
                                THEN [nan |-> FALSE, num |-> v * 100, den |-> p]
                                ELSE NaN]
    IN CHOOSE s \in Arrangements({Row(k[1]) : k \in DOMAIN totals}) :
           \A i, j \in DOMAIN s :
               i < j => DateOrd(s[i].date) < DateOrd(s[j].date)

\* the arguments given to the kpi functions: no period, a period of the
\* uploads, a period after them; no entity or one entity; a top_n that cuts
\* the list and the default
PeriodArgs == {None, Some(parse_dates_to_month_end([m |-> 1, d |-> 1])),
               Some(parse_dates_to_month_end([m |-> 3, d |-> 1]))}
EntityArgs == {None, Some("E1")}
TopNArgs == {1, 5}

----------------------------------------------------------------------------
(* Automated-Daily-Report/update_gep_report.py *)

StartYear == 2025       \* first month of the run dates: December 2025
StartMonth == 12
HorizonMonths == 3      \* number of months the run dates span
MaxEvents == 2          \* number of warehouse rows
MaxAdds == 3            \* largest per-partner count given to calculate_metrics

MonthOf(k) ==
    LET i == (StartYear * 12 + StartMonth - 1) + k
    IN [y |-> i \div 12, m |-> (i % 12) + 1]

RunMonths == {MonthOf(k) : k \in 0..(HorizonMonths - 1)}
Dates == UNION {{[y |-> mo.y, m |-> mo.m, d |-> d] :
                    d \in 1..MonthRange(mo.y, mo.m)} : mo \in RunMonths}

PrevMonth(mo) ==
    IF mo.m = 1 THEN [y |-> mo.y - 1, m |-> 12]
    ELSE [y |-> mo.y, m |-> mo.m - 1]

Partners == {"A", "B"}

\* lines 136-157: the month and the cutoff day the report describes
ReportingWindow(t) ==
    IF t.d = 1
    THEN LET mo == PrevMonth([y |-> t.y, m |-> t.m])
         IN [year |-> mo.y, month |-> mo.m, day |-> MonthRange(mo.y, mo.m)]
    ELSE [year |-> t.y, month |-> t.m, day |-> t.d - 1]

InMonth(e, y, m) == e.cal.y = y /\ e.cal.m = m

\* lines 178-183
current_month_data(frame, t) ==
    LET w == ReportingWindow(t)
    IN {e \in frame : InMonth(e, w.year, w.month) /\ e.day <= w.day
                      /\ e.adds_flag = 1}

\* lines 186-191
today_partial_data(frame, t) ==
    LET w == ReportingWindow(t)
    IN {e \in frame : InMonth(e, w.year, w.month) /\ e.day = t.d
                      /\ e.adds_flag = 1}

\* lines 202-207
prior_month_data(frame, t) ==
    LET w == ReportingWindow(t)
        p == PrevMonth([y |-> w.year, m |-> w.month])
    IN {e \in frame : InMonth(e, p.y, p.m) /\ e.day <= w.day
                      /\ e.adds_flag = 1}

\* lines 210-216
prior_year_data(frame, t) ==
    LET w == ReportingWindow(t)
    IN {e \in frame : InMonth(e, w.year - 1, w.month) /\ e.day <= w.day
                      /\ e.adds_flag = 1}

\* groupby('partner_name')['adds_flag'].sum().to_dict()
GroupCount(rows) ==
    [p \in {e.partner_name : e \in rows} |->
        Cardinality({e \in rows : e.partner_name = p})]

Get(d, k) == IF k \in DOMAIN d THEN d[k] ELSE 0

\* the entry without the sentinel of 100 for a partner without prior adds
CompareWithoutSentinel(current, prior, prior_year_value) ==
    [current |-> current,
     prior |-> prior,
     change |-> current - prior,
     pct_change |-> IF prior > 0
                    THEN [num |-> (current - prior) * 100, den |-> prior]
                    ELSE [num |-> 0, den |-> 1],
     yoy_pct |-> IF prior_year_value > 0
                 THEN Some(RoundHalfEven((current - prior_year_value) * 100,
                                         prior_year_value))
                 ELSE None]

\* the entry with a year-over-year percentage of 0 for a partner without
\* adds in the prior year
CompareWithZeroYoy(current, prior, prior_year_value) ==
    [current |-> current,
     prior |-> prior,
     change |-> current - prior,
     pct_change |-> IF prior > 0
                    THEN [num |-> (current - prior) * 100, den |-> prior]
                    ELSE [num |-> IF current > 0 THEN 100 ELSE 0, den |-> 1],
     yoy_pct |-> IF prior_year_value > 0
                 THEN Some(RoundHalfEven((current - prior_year_value) * 100,
                                         prior_year_value))
                 ELSE Some(0)]

\* lines 228-246: one entry of partner_comparison; pct_change is the
\* rational num / den
Compare(current, prior, prior_year_value) ==
    [current |-> current,
     prior |-> prior,
     change |-> current - prior,
     pct_change |-> IF prior > 0
                    THEN [num |-> (current - prior) * 100, den |-> prior]
                    ELSE [num |-> IF current > 0 THEN 100 ELSE 0, den |-> 1],
     yoy_pct |-> IF prior_year_value > 0
                 THEN Some(RoundHalfEven((current - prior_year_value) * 100,
                                         prior_year_value))
                 ELSE None]

NoPartial == [present |-> FALSE, day |-> 0, adds |-> 0,
              by_partner |-> GroupCount({})]
NoYoy == [present |-> FALSE, yoy_change |-> 0, yoy_pct |-> None,
          prior_year_total |-> 0]

\* line 225
all_partners(frame, t) ==
    {e.partner_name : e \in current_month_data(frame, t)
                           \cup prior_month_data(frame, t)
                           \cup prior_year_data(frame, t)}

\* lines 125-283; `order` is the order in which the loop of line 227 walks
\* the set all_partners, which is the key order of the returned dict
parse_gep_data_for_current_month(frame, t, order) ==
    LET cur  == GroupCount(current_month_data(frame, t))
        pri  == GroupCount(prior_month_data(frame, t))
        pry  == GroupCount(prior_year_data(frame, t))
        part == today_partial_data(frame, t)
        total_adds == SetSum(DOMAIN cur, cur)
        total_prior_year == SetSum(DOMAIN pry, pry)
        yoy_change == total_adds - total_prior_year
    IN [partners |-> [p \in all_partners(frame, t) |->
                        Compare(Get(cur, p), Get(pri, p), Get(pry, p))],
        order |-> order,
        yoy_total |-> [present |-> TRUE,
                       yoy_change |-> yoy_change,
                       yoy_pct |-> IF total_prior_year > 0
                                   THEN Some(RoundHalfEven(yoy_change * 100,
                                                           total_prior_year))
                                   ELSE None,
                       prior_year_total |-> total_prior_year],
        today_partial |-> [present |-> TRUE,
                           day |-> t.d,
                           adds |-> Cardinality(part),
                           by_partner |-> GroupCount(part)]]

\* lines 55-58
FALLBACK_TARGETS(y, m) ==
    IF y = 2025 /\ m = 12 THEN [found |-> TRUE, forecast |-> 424, stretch |-> 943]
    ELSE IF y = 2026 /\ m = 1
    THEN [found |-> TRUE, forecast |-> 948, stretch |-> 1278]
    ELSE [found |-> FALSE, forecast |-> 0, stretch |-> 0]

\* targets_cache.json: absent, not parseable, or a record of one month
MissingCache == [state |-> "missing", month |-> [y |-> 0, m |-> 0],
                 forecast |-> None, stretch |-> None, low |-> None]
CorruptCache == [MissingCache EXCEPT !.state = "corrupt"]

\* lines 380-420
fetch_monthly_targets_from_sheets(t, c) ==
    IF c.state = "ok" /\ c.month = [y |-> t.y, m |-> t.m]
    THEN [forecast |-> c.forecast, stretch |-> c.stretch, low |-> c.low]
    ELSE [forecast |-> None, stretch |-> None, low |-> None]

\* lines 442-451
FallbackTargets(t) ==
    LET fb == FALLBACK_TARGETS(t.y, t.m)
    IN IF fb.found
       THEN [forecast |-> fb.forecast, stretch |-> fb.stretch, low |-> 987]
       ELSE [forecast |-> 948, stretch |-> 1534, low |-> 987]

\* lines 423-451
get_monthly_targets(t, c) ==
    LET f == fetch_monthly_targets_from_sheets(t, c)
    IN IF Truthy(f.forecast) /\ Truthy(f.stretch) /\ Truthy(f.low)
       THEN [forecast |-> f.forecast.v, stretch |-> f.stretch.v, low |-> f.low.v]
       ELSE FallbackTargets(t)

\* lines 456-473: days_elapsed when the caller passes None
AutoDaysElapsed(t) ==
    IF t.d = 1
    THEN LET mo == PrevMonth([y |-> t.y, m |-> t.m])
         IN MonthRange(mo.y, mo.m)
    ELSE t.d - 1

\* line 475
DaysInMonth(t) == 31

\* line 481
TotalAdds(cmp) ==
    SetSum(DOMAIN cmp.partners, [p \in DOMAIN cmp.partners |-> cmp.partners[p].current])

\* line 482 and line 517: the run-rate that enters the percentages
RunRateVs(total, days, dim, target) ==
    [n |-> total * dim * 100, d |-> days * target,
     exact |-> Dyadic(total, days) /\ Dyadic(total * dim, days * target)]

\* the rounded ratios of lines 508-522, each as the rational it rounds
Ratios(total, days, dim, tg) ==
    [run_rate |-> [n |-> total * dim, d |-> days, exact |-> Dyadic(total, days)],
     attainment_forecast |-> [n |-> total * 100, d |-> tg.forecast,
                              exact |-> Dyadic(total, tg.forecast)],
     attainment_stretch |-> [n |-> total * 100, d |-> tg.stretch,
                             exact |-> Dyadic(total, tg.stretch)],
     attainment_low |-> [n |-> total * 100, d |-> tg.low,
                         exact |-> Dyadic(total, tg.low)],
     run_rate_vs_forecast |-> RunRateVs(total, days, dim, tg.forecast),
     run_rate_vs_stretch |-> RunRateVs(total, days, dim, tg.stretch),
     run_rate_vs_low |-> RunRateVs(total, days, dim, tg.low),
     forecast_vs_stretch |-> [n |-> tg.forecast * 100, d |-> tg.stretch,
                              exact |-> Dyadic(tg.forecast, tg.stretch)],
     forecast_vs_low |-> [n |-> tg.forecast * 100, d |-> tg.low,
                          exact |-> Dyadic(tg.forecast, tg.low)],
     daily_average |-> [n |-> total * 10, d |-> days,
                        exact |-> Dyadic(total, days)]]

RatioNames == {"run_rate", "attainment_forecast", "attainment_stretch",
               "attainment_low", "run_rate_vs_forecast", "run_rate_vs_stretch",
               "run_rate_vs_low", "forecast_vs_stretch", "forecast_vs_low",
               "daily_average"}

DaysOf(t, days_elapsed) ==
    IF days_elapsed.some THEN days_elapsed.v ELSE AutoDaysElapsed(t)

\* the ratios whose float lies next to an exact half without being exact
InexactTies(cmp, days_elapsed, t, c) ==
    LET days == DaysOf(t, days_elapsed)
        r == Ratios(TotalAdds(cmp), days, DaysInMonth(t), get_monthly_targets(t, c))
    IN IF days = 0 THEN {}
       ELSE {k \in RatioNames : IsTie(r[k].n, r[k].d) /\ ~r[k].exact}

\* partner_comparison.items(): the keys in dict order, the partners first,
\* then the metadata entries of lines 270-281
Items(cmp) ==
    cmp.order
    \o (IF cmp.yoy_total.present THEN <<"_yoy_total">> ELSE <<>>)
    \o (IF cmp.today_partial.present THEN <<"_today_partial">> ELSE <<>>)

\* key.startswith('_')
StartsWithUnderscore(k) == k \in {"_yoy_total", "_today_partial"}

\* a < b for rationals of positive denominator
RatLess(a, b) == a.num * b.den < b.num * a.den

\* the sort key of an item (partner, data)
KeyOf(item, field) ==
    IF field = "current" THEN [num |-> item[2].current, den |-> 1]
    ELSE item[2].pct_change

GoesBefore(x, y, field, reverse) ==
    IF reverse THEN RatLess(KeyOf(y, field), KeyOf(x, field))
    ELSE RatLess(KeyOf(x, field), KeyOf(y, field))

RECURSIVE InsertItem(_, _, _, _)
InsertItem(s, x, field, reverse) ==
    IF s = <<>> THEN <<x>>
    ELSE IF GoesBefore(x, Head(s), field, reverse) THEN <<x>> \o s
    ELSE <<Head(s)>> \o InsertItem(Tail(s), x, field, reverse)

\* sorted(items, key=..., reverse=...): stable, equal keys keep their order
RECURSIVE sorted(_, _, _)
sorted(s, field, reverse) ==
    IF s = <<>> THEN <<>>
    ELSE InsertItem(sorted(SubSeq(s, 1, Len(s) - 1), field, reverse),
                    s[Len(s)], field, reverse)

ItemKeys(cmp) == {Items(cmp)[i] : i \in DOMAIN Items(cmp)}

\* the (partner, data) pairs of the keys in keep, in dict order
ItemsWhere(cmp, keep) ==
    LET keys == SelectSeq(Items(cmp), LAMBDA k : k \in keep)
    IN [i \in DOMAIN keys |-> <<keys[i], cmp.partners[keys[i]]>>]

\* lines 493-495, without the threshold of 5 adds
LeadersNoThreshold(cmp) ==
    HeadRows(sorted(ItemsWhere(cmp, {k \in ItemKeys(cmp) : ~StartsWithUnderscore(k)}),
                    "pct_change", TRUE), 3)

\* lines 493-495
Leaders(cmp) ==
    HeadRows(sorted(ItemsWhere(cmp, {k \in ItemKeys(cmp) :
                                       /\ ~StartsWithUnderscore(k)
                                       /\ cmp.partners[k].current >= 5}),
                    "pct_change", TRUE), 3)

\* lines 498-500
Laggards(cmp) ==
    HeadRows(sorted(ItemsWhere(cmp, {k \in ItemKeys(cmp) :
                                       /\ ~StartsWithUnderscore(k)
                                       /\ cmp.partners[k].prior > 0}),
                    "pct_change", FALSE), 3)

\* lines 503-504
AbsoluteTop(cmp) ==
    HeadRows(sorted(ItemsWhere(cmp, {k \in ItemKeys(cmp) : ~StartsWithUnderscore(k)}),
                    "current", TRUE), 5)

NoMetrics == [status |-> "none"]

\* lines 454-532; `up` gives the side of each inexact tie. The division of
\* line 482 raises when days_elapsed is 0. daily_average is kept in tenths.
calculate_metrics(cmp, days_elapsed, t, c, up) ==
    LET days == DaysOf(t, days_elapsed)
        dim == DaysInMonth(t)
        tg == get_monthly_targets(t, c)
        total == TotalAdds(cmp)
        r == Ratios(total, days, dim, tg)
        R(k) == PyRound(r[k].n, r[k].d, r[k].exact,
                        IF k \in DOMAIN up THEN up[k] ELSE 0)
    IN IF days = 0 THEN [status |-> "ZeroDivisionError"]
       ELSE [status |-> "ok",
             mtd_adds |-> total,
             run_rate |-> R("run_rate"),
             days_elapsed |-> days,
             days_in_month |-> dim,
             low |-> tg.low,
             forecast |-> tg.forecast,
             stretch |-> tg.stretch,
             attainment_forecast |-> R("attainment_forecast"),
             attainment_stretch |-> R("attainment_stretch"),
             attainment_low |-> R("attainment_low"),
             run_rate_vs_forecast |-> R("run_rate_vs_forecast"),
             run_rate_vs_stretch |-> R("run_rate_vs_stretch"),
             run_rate_vs_low |-> R("run_rate_vs_low"),
             forecast_vs_stretch |-> R("forecast_vs_stretch"),
             forecast_vs_low |-> R("forecast_vs_low"),
             daily_average |-> R("daily_average"),
             top_partners |-> AbsoluteTop(cmp),
             leaders |-> Leaders(cmp),
             laggards |-> Laggards(cmp),
             yoy_change |-> IF cmp.yoy_total.present
                            THEN Some(cmp.yoy_total.yoy_change) ELSE None,
             yoy_pct |-> cmp.yoy_total.yoy_pct,
             today_partial |-> cmp.today_partial]

\* lines 582-587
current_leads(frame, t) ==
    LET w == ReportingWindow(t)
    IN {e \in frame : InMonth(e, w.year, w.month) /\ e.day <= w.day
                      /\ e.leads_flag = 1}

\* lines 590-595
prior_leads(frame, t) ==
    LET w == ReportingWindow(t)
        p == PrevMonth([y |-> w.year, m |-> w.month])
    IN {e \in frame : InMonth(e, p.y, p.m) /\ e.day <= w.day
                      /\ e.leads_flag = 1}

\* line 603
all_lead_partners(frame, t) ==
    {e.partner_name : e \in current_leads(frame, t) \cup prior_leads(frame, t)}

\* lines 606-616: one entry of the leads comparison
LeadsCompare(current, prior) ==
    [current |-> current,
     prior |-> prior,
     change |-> current - prior,
     pct_change |-> IF prior > 0
                    THEN [num |-> (current - prior) * 100, den |-> prior]
                    ELSE [num |-> IF current > 0 THEN 100 ELSE 0, den |-> 1]]

\* line 624
LeadsDaysInMonth(w) ==
    IF w.month < 12 THEN MonthRange(w.year, w.month) ELSE 31

\* lines 625-626: int(total / day * days_in_month); when the exact value is
\* an integer q and total / day is not a binary fraction, the float product
\* lies at q or just below it
LeadsRunRates(frame, t) ==
    LET w == ReportingWindow(t)
        n == Cardinality(current_leads(frame, t)) * LeadsDaysInMonth(w)
        q == n \div w.day
    IN IF n % w.day = 0 /\ ~Dyadic(Cardinality(current_leads(frame, t)), w.day)
       THEN {q - 1, q} ELSE {q}

\* lines 629-631
LeadsLeaders(cmp) ==
    HeadRows(sorted(ItemsWhere(cmp, {k \in ItemKeys(cmp) :
                        /\ cmp.partners[k].current >= 10
                        /\ RatLess([num |-> 0, den |-> 1], cmp.partners[k].pct_change)}),
                    "pct_change", TRUE), 3)

\* lines 634-636
LeadsLaggards(cmp) ==
    HeadRows(sorted(ItemsWhere(cmp, {k \in ItemKeys(cmp) :
                        /\ cmp.partners[k].prior > 0
                        /\ RatLess(cmp.partners[k].pct_change, [num |-> 0, den |-> 1])}),
                    "pct_change", FALSE), 3)

NoLeads == [status |-> "none"]

\* lines 535-656; `order` is the order in which the loop of line 605 walks
\* the set all_partners, `run_rate` the value of line 626
parse_leads_data(frame, t, order, run_rate) ==
    LET w   == ReportingWindow(t)
        cur == GroupCount(current_leads(frame, t))
        pri == GroupCount(prior_leads(frame, t))
        cmp == [partners |-> [p \in all_lead_partners(frame, t) |->
                                LeadsCompare(Get(cur, p), Get(pri, p))],
                order |-> order,
                yoy_total |-> NoYoy,
                today_partial |-> NoPartial]
        total_current == SetSum(DOMAIN cur, cur)
        total_prior == SetSum(DOMAIN pri, pri)
    IN [status |-> "ok",
        total_leads |-> total_current,
        total_prior |-> total_prior,
        total_change |-> total_current - total_prior,
        total_pct |-> IF total_prior > 0
                      THEN [num |-> (total_current - total_prior) * 100,
                            den |-> total_prior]
                      ELSE [num |-> 0, den |-> 1],
        daily_avg |-> [num |-> total_current, den |-> w.day],
        run_rate |-> run_rate,
        days_elapsed |-> w.day,
        days_in_month |-> LeadsDaysInMonth(w),
        partner_comparison_leads |-> cmp.partners,
        order |-> order,
        leaders |-> LeadsLeaders(cmp),
        laggards |-> LeadsLaggards(cmp)]

\* lines 939-948: the sample data main uses when the warehouse is unavailable
SamplePartner(current, prior, change, pct) ==
    [current |-> current, prior |-> prior, change |-> change,
     pct_change |-> [num |-> pct, den |-> 1], yoy_pct |-> None]

SampleData ==
    [partners |->
        ("Collective" :> SamplePartner(7, 10, -3, -30)) @@
        ("FreshBooks" :> SamplePartner(12, 8, 4, 50)) @@
        ("Vagaro Embedded Payroll" :> SamplePartner(20, 18, 2, 11)) @@
        ("HR for Health" :> SamplePartner(11, 9, 2, 22)) @@
        ("Heard" :> SamplePartner(3, 15, -12, -80)) @@
        ("GoCo" :> SamplePartner(14, 5, 9, 180)) @@
        ("Chase" :> SamplePartner(13, 12, 1, 8)) @@
        ("BQE Software, Inc" :> SamplePartner(7, 8, -1, -13)),
     order |-> <<"Collective", "FreshBooks", "Vagaro Embedded Payroll",
                 "HR for Health", "Heard", "GoCo", "Chase", "BQE Software, Inc">>,
     yoy_total |-> NoYoy,
     today_partial |-> NoPartial]

NoComparison == [partners |-> GroupCount({}), order |-> <<>>,
                 yoy_total |-> NoYoy, today_partial |-> NoPartial]

\* the cache as refresh_targets_simple.py writes it, small targets, a zero
\* target and a missing target, for the month of the run or the one before
TargetTriples ==
    {[forecast |-> Some(948), stretch |-> Some(1534), low |-> Some(987)],
     [forecast |-> Some(20), stretch |-> Some(40), low |-> Some(30)],
     [forecast |-> Some(0), stretch |-> Some(40), low |-> Some(30)],
     [forecast |-> Some(20), stretch |-> Some(40), low |-> None]}

CacheOf(mo, tr) ==
    [state |-> "ok", month |-> mo, forecast |-> tr.forecast,
     stretch |-> tr.stretch, low |-> tr.low]

Caches(t) ==
    {MissingCache, CorruptCache} \cup
    {CacheOf(mo, tr) : mo \in {[y |-> t.y, m |-> t.m],
                               PrevMonth([y |-> t.y, m |-> t.m])},
                       tr \in TargetTriples}

\* the caches of the pipeline runs: absent, fresh, or left from last month
ReportCaches(t) ==
    {MissingCache,
     CacheOf([y |-> t.y, m |-> t.m],
             [forecast |-> Some(948), stretch |-> Some(1534), low |-> Some(987)]),
     CacheOf(PrevMonth([y |-> t.y, m |-> t.m]),
             [forecast |-> Some(20), stretch |-> Some(40), low |-> Some(30)])}

\* warehouse rows around the run date, none later than the run date:
\* calendar_month is the month of action_date, of which the filters read the
\* day
NearEvents(t) ==
    LET w == ReportingWindow(t)
        r == [y |-> w.year, m |-> w.month]
        months == {r, PrevMonth(r), [y |-> r.y - 1, m |-> r.m],
                   [y |-> t.y, m |-> t.m]}
        days(mo) == {d \in {1, w.day, t.d} :
                        /\ d <= MonthRange(mo.y, mo.m)
                        /\ (mo = [y |-> t.y, m |-> t.m] => d <= t.d)}
    IN UNION {{[cal |-> mo, day |-> d, partner_name |-> p, adds_flag |-> 1,
                 leads_flag |-> 0] :
                  d \in days(mo), p \in Partners} : mo \in months}

\* the same rows as leads
LeadEvents(t) ==
    {[e EXCEPT !.adds_flag = 0, !.leads_flag = 1] : e \in NearEvents(t)}

\* the subsets of S of at most k elements
SmallSubsets(S, k) == {{}} \cup {{f[i] : i \in 1..k} : f \in [1..k -> S]}

\* warehouse rows of adds and leads
ParseFrames(t) == SmallSubsets(NearEvents(t) \cup LeadEvents(t), MaxEvents)

\* run dates at the start and at the end of a month
ParseDates == {t \in Dates : t.d \in {1, 2, MonthRange(t.y, t.m)}}

Frames(t) == {f \in SUBSET NearEvents(t) : Cardinality(f) <= MaxEvents}

\* lines 65-122: None when the connector is not installed or when anything
\* raises while connecting or querying, the frame otherwise
fetch_gep_data_from_snowflake(available, raises, frame) ==
    IF ~available \/ raises THEN None ELSE Some(frame)

\* line 687: print_summary divides by mtd_adds for every top partner
print_summary_raises(m) == m.mtd_adds = 0 /\ m.top_partners # <<>>

\* lines 876-903: one entry per key of the adds comparison (its metadata
\* keys included) and of the leads comparison
merge_partner_data(cmp, leads) ==
    LET lp == IF leads.status = "ok" THEN leads.partner_comparison_leads
              ELSE GroupCount({})
        zero == [num |-> 0, den |-> 1]
    IN [k \in ItemKeys(cmp) \cup DOMAIN cmp.partners \cup DOMAIN lp |->
          [current |-> IF k \in DOMAIN cmp.partners THEN cmp.partners[k].current ELSE 0,
           prior |-> IF k \in DOMAIN cmp.partners THEN cmp.partners[k].prior ELSE 0,
           change |-> IF k \in DOMAIN cmp.partners THEN cmp.partners[k].change ELSE 0,
           pct_change |-> IF k \in DOMAIN cmp.partners
                          THEN cmp.partners[k].pct_change ELSE zero,
           leads_current |-> IF k \in DOMAIN lp THEN lp[k].current ELSE 0,
           leads_prior |-> IF k \in DOMAIN lp THEN lp[k].prior ELSE 0,
           leads_change |-> IF k \in DOMAIN lp THEN lp[k].change ELSE 0,
           leads_pct_change |-> IF k \in DOMAIN lp THEN lp[k].pct_change ELSE zero]]

NoFile == [present |-> FALSE]

\* lines 906-919: the content of latest_metrics.json; json.dump and json.load
\* keep its numbers, strings, lists and nulls
save_metrics_json(m, cmp, leads, t) ==
    [present |-> TRUE,
     metrics |-> m,
     leads_data |-> leads,
     partner_comparison |-> merge_partner_data(cmp, leads),
     report_date |-> t]

AlignIdle ==
    /\ actuals = [hasEntity |-> FALSE, rows |-> <<>>]
    /\ plan = [hasEntity |-> FALSE, rows |-> <<>>]
    /\ grid = NoGrid
    /\ apc = "idle"
    /\ period = None
    /\ entity = None
    /\ top_n = 5
    /\ summary = NoSummary
    /\ totals_table = <<>>

SendIdle ==
    /\ token = TRUE
    /\ message = [status |-> "none"]
    /\ max_retries = 0
    /\ attempt = 0
    /\ posts = <<>>
    /\ timestamp = None
    /\ breakdown_success = "none"
    /\ spc = "idle"
    /\ exit_code = None

PipelineIdle ==
    /\ steps = <<>>
    /\ ppc = "idle"
    /\ exit_status = None
    /\ refreshed = "none"

ReportIdle ==
    /\ today = [y |-> StartYear, m |-> StartMonth, d |-> 1]
    /\ df = {}
    /\ cache = MissingCache
    /\ days_arg = None
    /\ partner_comparison = NoComparison
    /\ metrics = NoMetrics
    /\ leads_data = NoLeads
    /\ fetched = FALSE
    /\ metrics_file = NoFile
    /\ pc = "idle"

----------------------------------------------------------------------------
(* The daily report run: update_gep_report.main *)

ReportInit ==
    /\ today \in Dates
    /\ df \in Frames(today)
    /\ cache \in ReportCaches(today)
    /\ days_arg = None
    /\ partner_comparison = NoComparison
    /\ metrics = NoMetrics
    /\ leads_data = NoLeads
    /\ fetched = FALSE
    /\ metrics_file = NoFile
    /\ pc = "start"

\* lines 932-933: the warehouse answered
MainParse ==
    /\ pc = "start"
    /\ \E available, raises \in BOOLEAN :
          LET fetch == fetch_gep_data_from_snowflake(available, raises, df)
          IN /\ fetch.some
             /\ \E order \in Arrangements(all_partners(fetch.v, today)) :
                   partner_comparison' =
                       parse_gep_data_for_current_month(fetch.v, today, order)
    /\ fetched' = TRUE
    /\ pc' = "parsed"
    /\ UNCHANGED <<today, df, cache, days_arg, metrics, leads_data, metrics_file>>
    /\ UNCHANGED <<alignVars, sendVars, pipelineVars>>

\* lines 936-948: the warehouse did not answer
MainSampleData ==
    /\ pc = "start"
    /\ \E available, raises \in BOOLEAN :
          ~fetch_gep_data_from_snowflake(available, raises, df).some
    /\ partner_comparison' = SampleData
    /\ fetched' = FALSE
    /\ pc' = "parsed"
    /\ UNCHANGED <<today, df, cache, days_arg, metrics, leads_data, metrics_file>>
    /\ UNCHANGED <<alignVars, sendVars, pipelineVars>>

\* lines 951-953
MainCalculate ==
    /\ pc = "parsed"
    /\ days_arg' = Some(today.d - 1)
    /\ \E up \in [InexactTies(partner_comparison, days_arg', today, cache) -> {0, 1}] :
          metrics' = calculate_metrics(partner_comparison, days_arg', today, cache, up)
    /\ pc' = IF metrics'.status = "ok" THEN "done" ELSE "crashed"
    /\ UNCHANGED <<today, df, cache, partner_comparison, leads_data, fetched,
                   metrics_file>>
    /\ UNCHANGED <<alignVars, sendVars, pipelineVars>>

\* line 956: `parse_leads_data(df) if df is not None else None`
MainLeads ==
    /\ pc = "done"
    /\ IF fetched
       THEN \E order \in Arrangements(all_lead_partners(df, today)) :
            \E run_rate \in LeadsRunRates(df, today) :
               leads_data' = parse_leads_data(df, today, order, run_rate)
       ELSE leads_data' = NoLeads
    /\ pc' = "reported"
    /\ UNCHANGED <<today, df, cache, days_arg, partner_comparison, metrics,
                   fetched, metrics_file>>
    /\ UNCHANGED <<alignVars, sendVars, pipelineVars>>

\* lines 959-981: print_summary, the chart, the document, save_metrics_json
\* and `return 0`
MainSave ==
    /\ pc = "reported"
    /\ IF print_summary_raises(metrics)
       THEN pc' = "crashed" /\ UNCHANGED metrics_file
       ELSE /\ metrics_file' =
                  save_metrics_json(metrics, partner_comparison, leads_data, today)
            /\ pc' = "exited"
    /\ UNCHANGED <<today, df, cache, days_arg, partner_comparison, metrics,
                   leads_data, fetched>>
    /\ UNCHANGED <<alignVars, sendVars, pipelineVars>>

ReportNext ==
    MainParse \/ MainSampleData \/ MainCalculate \/ MainLeads \/ MainSave

ReportStart == AlignIdle /\ ReportInit /\ SendIdle /\ PipelineIdle

SpecReport == ReportStart /\ [][ReportNext]_vars

----------------------------------------------------------------------------
(* calculate_metrics called on its own *)

DrawnComparisons(t) ==
    {[partners |-> [p \in Partners |-> Compare(c[p], 1, 0)],
      order |-> <<"A", "B">>,
      yoy_total |-> [present |-> TRUE, yoy_change |-> c["A"] + c["B"],
                     yoy_pct |-> None, prior_year_total |-> 0],
      today_partial |-> [present |-> TRUE, day |-> t.d, adds |-> 0,
                         by_partner |-> GroupCount({})]] :
        c \in [Partners -> 0..MaxAdds]}

MetricsInit ==
    /\ \/ today \in Dates /\ days_arg = None
       \/ today \in {t \in Dates : t.d = 15} /\ days_arg \in {Some(n) : n \in -1..31}
    /\ df = {}
    /\ cache \in Caches(today)
    /\ partner_comparison \in DrawnComparisons(today)
    /\ metrics = NoMetrics
    /\ leads_data = NoLeads
    /\ fetched = FALSE
    /\ metrics_file = NoFile
    /\ pc = "call"

CalculateMetrics ==
    /\ pc = "call"
    /\ \E up \in [InexactTies(partner_comparison, days_arg, today, cache) -> {0, 1}] :
          metrics' = calculate_metrics(partner_comparison, days_arg, today, cache, up)
    /\ pc' = IF metrics'.status = "ok" THEN "returned" ELSE "raised"
    /\ UNCHANGED <<today, df, cache, days_arg, partner_comparison, leads_data,
                   fetched, metrics_file>>
    /\ UNCHANGED <<alignVars, sendVars, pipelineVars>>

MetricsNext == CalculateMetrics

MetricsStart == AlignIdle /\ MetricsInit /\ SendIdle /\ PipelineIdle

SpecMetrics == MetricsStart /\ [][MetricsNext]_vars

----------------------------------------------------------------------------
(* calculate_metrics called on a comparison of four partners *)

MaxPrior == 1           \* largest prior count of the four partners

SelectionPartners == {"A", "B", "C", "D"}

\* current counts below and at the threshold of 5 adds, prior counts from 0,
\* every key order of the dict
SelectionComparisons(t) ==
    {[partners |-> [p \in SelectionPartners |-> Compare(c[p], q[p], 0)],
      order |-> order,
      yoy_total |-> [present |-> TRUE,
                     yoy_change |-> c["A"] + c["B"] + c["C"] + c["D"],
                     yoy_pct |-> None, prior_year_total |-> 0],
      today_partial |-> [present |-> TRUE, day |-> t.d, adds |-> 0,
                         by_partner |-> GroupCount({})]] :
        c \in [SelectionPartners -> {0, 5, 6}],
        q \in [SelectionPartners -> 0..MaxPrior],
        order \in Arrangements(SelectionPartners)}

SelectionInit ==
    /\ today = [y |-> MonthOf(0).y, m |-> MonthOf(0).m, d |-> 15]
    /\ days_arg = None
    /\ df = {}
    /\ cache = MissingCache
    /\ partner_comparison \in SelectionComparisons(today)
    /\ metrics = NoMetrics
    /\ leads_data = NoLeads
    /\ fetched = FALSE
    /\ metrics_file = NoFile
    /\ pc = "call"

SelectionStart == AlignIdle /\ SelectionInit /\ SendIdle /\ PipelineIdle

SpecSelection == SelectionStart /\ [][MetricsNext]_vars

----------------------------------------------------------------------------
(* The parsers called on their own *)

ParseInit ==
    /\ today \in ParseDates
    /\ df \in ParseFrames(today)
    /\ cache = MissingCache
    /\ days_arg = None
    /\ partner_comparison = NoComparison
    /\ metrics = NoMetrics
    /\ leads_data = NoLeads
    /\ fetched = FALSE
    /\ metrics_file = NoFile
    /\ pc = "start"

\* parse_leads_data(df)
ParseLeads ==
    /\ pc = "start"
    /\ \E order \in Arrangements(all_lead_partners(df, today)) :
       \E run_rate \in LeadsRunRates(df, today) :
          leads_data' = parse_leads_data(df, today, order, run_rate)
    /\ pc' = "leads_parsed"
    /\ UNCHANGED <<today, df, cache, days_arg, partner_comparison, metrics,
                   fetched, metrics_file>>
    /\ UNCHANGED <<alignVars, sendVars, pipelineVars>>

ParseNext == MainParse \/ ParseLeads

ParseStart == AlignIdle /\ ParseInit /\ SendIdle /\ PipelineIdle

SpecParse == ParseStart /\ [][ParseNext]_vars

----------------------------------------------------------------------------
(* The dashboard run: app.py *)

AlignInit ==
    /\ \E na \in 0..MaxRows : \E np \in 0..(MaxRows - na) :
          /\ actuals \in RawFrames(na)
          /\ plan \in RawFrames(np)
    /\ grid = NoGrid
    /\ apc = "input"
    /\ period = None
    /\ entity = None
    /\ top_n = 5
    /\ summary = NoSummary
    /\ totals_table = <<>>

\* app.py: tidy = align_series(actuals_df, plan_df)
AlignSeries ==
    /\ apc = "input"
    /\ grid' = align_series(actuals, plan)
    /\ apc' = "aligned"
    /\ UNCHANGED <<actuals, plan, period, entity, top_n, summary, totals_table>>
    /\ UNCHANGED <<reportVars, sendVars, pipelineVars>>

\* kpi.describe_totals_table applied to the grid
DescribeTotalsTable ==
    /\ apc = "aligned"
    /\ \E e \in EntityArgs :
          /\ entity' = e
          /\ totals_table' = describe_totals_table(grid, e)
    /\ apc' = "described"
    /\ UNCHANGED <<actuals, plan, grid, period, top_n, summary>>
    /\ UNCHANGED <<reportVars, sendVars, pipelineVars>>

\* kpi.build_variance_summary applied to the grid
BuildVarianceSummary ==
    /\ apc = "aligned"
    /\ \E p \in PeriodArgs, e \in EntityArgs, n \in TopNArgs :
          /\ period' = p
          /\ entity' = e
          /\ top_n' = n
          /\ summary' \in build_variance_summary(grid, p, e, n)
    /\ apc' = "summarized"
    /\ UNCHANGED <<actuals, plan, grid, totals_table>>
    /\ UNCHANGED <<reportVars, sendVars, pipelineVars>>

AlignNext == AlignSeries \/ DescribeTotalsTable \/ BuildVarianceSummary

AlignStart == AlignInit /\ ReportIdle /\ SendIdle /\ PipelineIdle

SpecAlign == AlignStart /\ [][AlignNext]_vars

\* the uploads of the summary runs: numeric values, an unparseable date, one
\* day of January and one of February
SummaryRows(hasEntity) ==
    {r \in RawRows(hasEntity) : r.value.num /\ r.date # [m |-> 1, d |-> 20]}

SummaryFrames(n) ==
    UNION {{[hasEntity |-> h, rows |-> r] : r \in SeqOfLen(SummaryRows(h), n)} :
              h \in BOOLEAN}

SummaryInit ==
    /\ \E na \in 0..MaxRows : \E np \in 0..(MaxRows - na) :
          /\ actuals \in SummaryFrames(na)
          /\ plan \in SummaryFrames(np)
    /\ grid = NoGrid
    /\ apc = "input"
    /\ period = None
    /\ entity = None
    /\ top_n = 5
    /\ summary = NoSummary
    /\ totals_table = <<>>

SummaryStart == SummaryInit /\ ReportIdle /\ SendIdle /\ PipelineIdle

SpecSummary == SummaryStart /\ [][AlignNext]_vars
----------------------------------------------------------------------------
(* Properties of align_series, checked under SpecAlign *)

\* the tidy rows of both inputs, restricted to the columns of the grid
TidyInput ==
    LET ta == prepare_tidy_frame(actuals, "Actual")
        tp == prepare_tidy_frame(plan, "Plan")
        we == ta.hasEntity /\ tp.hasEntity
    IN SelectCommon(ta.rows, we) \o SelectCommon(tp.rows, we)

\* the keys of the inputs that carry a resolvable period
InputKeys ==
    {IdxOf(TidyInput[i]) : i \in {j \in DOMAIN TidyInput : TidyInput[j].date # NaT}}

SourceHas(key, series) ==
    \E i \in DOMAIN TidyInput :
        IdxOf(TidyInput[i]) = key /\ TidyInput[i].series = series

GridCells(key, series) ==
    {i \in DOMAIN grid.rows :
        IdxOf(grid.rows[i]) = key /\ grid.rows[i].series = series}

\* C1: alignment completeness. After align_series, every (date, metric
\* [, entity]) key of either input (with a resolvable period) has an Actual
\* row and a Plan row in the grid, and the row is 0 where the source had no
\* row for that key.
AlignmentCompleteness ==
    apc = "aligned" =>
        \A key \in InputKeys : \A s \in SeriesNames :
            /\ GridCells(key, s) # {}
            /\ ~SourceHas(key, s) =>
                  \A i \in GridCells(key, s) : grid.rows[i].value = 0

\* C2: the grid never holds two rows with the same (date, metric, entity,
\* series); stated for the rows of a resolvable period.
NoDuplicateGridRows ==
    apc = "aligned" =>
        \A i, j \in DOMAIN grid.rows :
            (grid.rows[i].date # NaT
             /\ IdxOf(grid.rows[i]) = IdxOf(grid.rows[j])
             /\ grid.rows[i].series = grid.rows[j].series) => i = j

----------------------------------------------------------------------------
(* Properties of kpi.py, checked under SpecSummary *)

Summarized == apc = "summarized" /\ summary.status = "ok"

\* the grid rows of one series in the period of the summary, restricted to
\* the entity when one is given and the grid has entities
PeriodRows(series) ==
    {i \in DOMAIN grid.rows :
        /\ grid.rows[i].date # NaT
        /\ grid.rows[i].date = summary.period
        /\ grid.rows[i].series = series
        /\ (entity.some /\ grid.hasEntity) => grid.rows[i].entity = entity.v}

GridTotal(series) ==
    SetSum(PeriodRows(series), [i \in DOMAIN grid.rows |-> grid.rows[i].value])

\* C11: the summary is for the requested period, total_actual and
\* total_plan are the sums of the grid values of series Actual and Plan of
\* that period (of the given entity), and total_variance is
\* total_actual - total_plan.
VarianceIsActualMinusPlan ==
    Summarized =>
        /\ period.some => summary.period = period.v
        /\ summary.total_actual = GridTotal("Actual")
        /\ summary.total_plan = GridTotal("Plan")
        /\ summary.total_variance = summary.total_actual - summary.total_plan

\* a summary of entity E1 that leaves out a Plan value of E2 of the period
EntityTotalsWitness ==
    /\ Summarized
    /\ grid.hasEntity
    /\ entity = Some("E1")
    /\ summary.total_plan = 5
    /\ summary.total_variance = -5
    /\ \E i \in DOMAIN grid.rows :
          /\ grid.rows[i].date = summary.period
          /\ grid.rows[i].entity = "E2"
          /\ grid.rows[i].series = "Plan"
          /\ grid.rows[i].value = 5

\* pct is NaN when the plan total is 0 and variance / plan * 100 otherwise
GuardedPct(pct, variance, plan_total) ==
    /\ pct.nan <=> plan_total = 0
    /\ pct.den # 0
    /\ plan_total # 0 => pct.num * plan_total = variance * 100 * pct.den

\* C12: zero-plan guard. In the summary and in every row of the totals
\* table the variance percentage is NaN when the plan total is 0 (not 0, not
\* infinite), and variance / plan * 100 otherwise.
ZeroPlanGuard ==
    /\ Summarized =>
          GuardedPct(summary.total_variance_pct, summary.total_variance,
                     summary.total_plan)
    /\ apc = "described" =>
          \A i \in DOMAIN totals_table :
              GuardedPct(totals_table[i].VariancePct, totals_table[i].Variance,
                         totals_table[i].Plan)

\* a summary of a period with actuals and a plan total of 0
ZeroPlanWitness ==
    /\ Summarized
    /\ summary.total_plan = 0
    /\ summary.total_actual = 5
    /\ summary.total_variance_pct = NaN

\* C13: for any grid (an empty one included) and a period without rows in
\* it, build_variance_summary returns a summary with zero totals and empty
\* contributor lists.
EmptyPeriodGivesZeroSummary ==
    (/\ apc = "summarized"
     /\ period.some
     /\ \A i \in DOMAIN grid.rows : grid.rows[i].date # period.v) =>
        /\ summary.status = "ok"
        /\ summary.total_plan = 0
        /\ summary.total_actual = 0
        /\ summary.total_variance = 0
        /\ summary.top_positive_contributors = <<>>
        /\ summary.top_negative_contributors = <<>>

\* entries of equal variance are in ascending category-name order
TiesInNameOrder(list) ==
    \A i, j \in DOMAIN list :
        (i < j /\ list[i][2] = list[j][2]) =>
            MetricOrd[list[i][1]] < MetricOrd[list[j][1]]

\* the grid with its rows in every order
RowOrders ==
    {[hasEntity |-> grid.hasEntity,
      rows |-> [i \in DOMAIN grid.rows |-> grid.rows[o[i]]]] :
        o \in Arrangements(DOMAIN grid.rows)}

ContributorSigns ==
    Summarized =>
        /\ \A i \in DOMAIN summary.top_positive_contributors :
              summary.top_positive_contributors[i][2] > 0
        /\ \A i \in DOMAIN summary.top_negative_contributors :
              summary.top_negative_contributors[i][2] < 0
        /\ \A i \in DOMAIN summary.top_positive_contributors :
              \A j \in DOMAIN summary.top_negative_contributors :
                  summary.top_positive_contributors[i][1] #
                      summary.top_negative_contributors[j][1]

----------------------------------------------------------------------------
(* Properties of the daily report run, checked under SpecReport *)

ThisMonth == [y |-> today.y, m |-> today.m]
LastMonthLength == MonthRange(PrevMonth(ThisMonth).y, PrevMonth(ThisMonth).m)

\* C3: a run on the 1st of a month reports the full previous month: the
\* event cutoff day and the days_elapsed of the metrics both equal the
\* number of days of the previous month.
FirstDayReportsFullPreviousMonth ==
    (pc \in {"done", "crashed"} /\ today.d = 1) =>
        /\ ReportingWindow(today).day = LastMonthLength
        /\ metrics.status = "ok"
        /\ metrics.days_elapsed = LastMonthLength

\* C4: the events counted as today's partial adds are disjoint from the
\* events counted in the MTD adds, and no event of the run date is counted
\* in the MTD adds.
MtdExcludesToday ==
    (pc = "parsed" /\ partner_comparison.today_partial.present) =>
        /\ current_month_data(df, today) \cap today_partial_data(df, today) = {}
        /\ \A e \in current_month_data(df, today) :
              ~(e.cal = ThisMonth /\ e.day = today.d)

\* C8: the days_in_month of the metrics is the calendar length of the month
\* the report describes.
DaysInMonthIsCalendarLength ==
    pc = "done" =>
        metrics.days_in_month =
            MonthRange(ReportingWindow(today).year, ReportingWindow(today).month)

----------------------------------------------------------------------------
(* Properties of calculate_metrics, checked under SpecMetrics *)

Returned == pc = "returned"
Called == pc \in {"returned", "raised"}

RoundHalfUp(n, d) == FloorDiv(2 * n + d, 2 * d)

\* v is an integer nearest to n / d (ties either way), for d > 0
IsNearest(v, n, d) == 2 * Abs(v * d - n) <= d

\* C5: calculate_metrics called with days_elapsed < 1 fails and returns no
\* metrics.
RejectsDaysElapsedBelowOne ==
    (Called /\ days_arg.some /\ days_arg.v < 1) => metrics.status # "ok"

\* C6: run_rate is mtd_total / days_elapsed * days_in_period rounded half-up,
\* for 1 <= days_elapsed <= days_in_period.
RunRateRoundsHalfUp ==
    (Returned /\ metrics.days_elapsed >= 1
     /\ metrics.days_elapsed <= metrics.days_in_month) =>
        metrics.run_rate =
            RoundHalfUp(metrics.mtd_adds * metrics.days_in_month,
                        metrics.days_elapsed)

\* C7: each attainment is mtd_total / target * 100 rounded to the nearest
\* integer, and each run_rate_vs is R / target * 100 rounded to the nearest
\* integer, where R is the reported run_rate.
PercentagesFromReportedRunRate ==
    (Returned /\ metrics.days_elapsed >= 1) =>
        /\ IsNearest(metrics.attainment_forecast, metrics.mtd_adds * 100, metrics.forecast)
        /\ IsNearest(metrics.attainment_stretch, metrics.mtd_adds * 100, metrics.stretch)
        /\ IsNearest(metrics.attainment_low, metrics.mtd_adds * 100, metrics.low)
        /\ IsNearest(metrics.run_rate_vs_forecast, metrics.run_rate * 100, metrics.forecast)
        /\ IsNearest(metrics.run_rate_vs_stretch, metrics.run_rate * 100, metrics.stretch)
        /\ IsNearest(metrics.run_rate_vs_low, metrics.run_rate * 100, metrics.low)

CachedTargets == fetch_monthly_targets_from_sheets(today, cache)
CacheIsForThisMonth == cache.state = "ok" /\ cache.month = ThisMonth

\* C9: a configured target of 0 makes the computation fail; it is never
\* replaced by another value.
ZeroTargetFails ==
    (Called /\ CacheIsForThisMonth
     /\ Some(0) \in {CachedTargets.forecast, CachedTargets.stretch, CachedTargets.low})
        => metrics.status # "ok"

\* metrics that a run with live targets of this month also produces
SameAsLiveFetch ==
    \E c \in Caches(today) :
        /\ c.state = "ok" /\ c.month = ThisMonth
        /\ Truthy(c.forecast) /\ Truthy(c.stretch) /\ Truthy(c.low)
        /\ \E up \in [InexactTies(partner_comparison, days_arg, today, c) -> {0, 1}] :
              calculate_metrics(partner_comparison, days_arg, today, c, up) = metrics

\* C10: when the cache holds no targets for the current month, no metrics are
\* produced, or the metrics are marked as using fallback targets, so that
\* they differ from those of a live fetch.
NoSilentDefaultTargets ==
    (Called /\ ~CacheIsForThisMonth /\ metrics.status = "ok") =>
        \/ "used_fallback" \in DOMAIN metrics
        \/ ~SameAsLiveFetch

----------------------------------------------------------------------------
(* Properties of the parsers, checked under SpecParse *)

\* the entries of the comparison the parser returned: adds or leads
ComparedEntries ==
    IF pc = "parsed" THEN partner_comparison.partners
    ELSE IF pc = "leads_parsed" THEN leads_data.partner_comparison_leads
    ELSE <<>>

ChangeAndPctChange(e) ==
    /\ e.change = e.current - e.prior
    /\ e.pct_change.den # 0
    /\ (e.current = 0 /\ e.prior = 0) => e.pct_change.num = 0
    /\ (e.prior = 0 /\ e.current > 0) =>
          e.pct_change.num = 100 * e.pct_change.den
    /\ e.prior # 0 =>
          e.pct_change.num * e.prior =
              (e.current - e.prior) * 100 * e.pct_change.den

\* C16: every entry of the adds comparison and of the leads comparison has
\* change = current - prior, and pct_change 0 when both are 0, 100 when
\* prior is 0 and current > 0, (current - prior) / prior * 100 otherwise;
\* the percentage is always a finite number.
PctChangeSentinels ==
    \A p \in DOMAIN ComparedEntries : ChangeAndPctChange(ComparedEntries[p])

\* an adds comparison with a new partner and a partner known only from the
\* prior year
NewEntrantWitness ==
    /\ pc = "parsed"
    /\ \E p, q \in DOMAIN partner_comparison.partners :
          /\ partner_comparison.partners[p].prior = 0
          /\ partner_comparison.partners[p].current > 0
          /\ partner_comparison.partners[p].pct_change = [num |-> 100, den |-> 1]
          /\ partner_comparison.partners[q].prior = 0
          /\ partner_comparison.partners[q].current = 0

PriorYearValue(p) ==
    Cardinality({e \in prior_year_data(df, today) : e.partner_name = p})

\* C17: the year-over-year percentage of a partner is present exactly when
\* the partner has adds in the prior-year window; otherwise it is None.
YoyPresentIffPriorYearValue ==
    pc = "parsed" =>
        \A p \in DOMAIN partner_comparison.partners :
            /\ partner_comparison.partners[p].yoy_pct.some <=> PriorYearValue(p) > 0
            /\ PriorYearValue(p) = 0 => partner_comparison.partners[p].yoy_pct = None

\* a comparison with a partner of the prior year and a partner without
YoyWitness ==
    /\ pc = "parsed"
    /\ \E p, q \in DOMAIN partner_comparison.partners :
          /\ PriorYearValue(p) > 0
          /\ partner_comparison.partners[p].yoy_pct.some
          /\ PriorYearValue(q) = 0
          /\ partner_comparison.partners[q].yoy_pct = None

\* one row on every calendar day of a month
AllDays(mo) ==
    {[cal |-> mo, day |-> d, partner_name |-> "A", adds_flag |-> 1,
      leads_flag |-> 1] : d \in 1..MonthRange(mo.y, mo.m)}

ReportedMonth ==
    [y |-> ReportingWindow(today).year, m |-> ReportingWindow(today).month]

\* C18: the current window and the prior-month window of the
\* month-over-month comparison cover the same number of calendar days, for
\* adds and for leads.
SameWindowLength ==
    pc \in {"parsed", "leads_parsed"} =>
        /\ Cardinality(current_month_data(AllDays(ReportedMonth), today)) =
           Cardinality(prior_month_data(AllDays(PrevMonth(ReportedMonth)), today))
        /\ Cardinality(current_leads(AllDays(ReportedMonth), today)) =
           Cardinality(prior_leads(AllDays(PrevMonth(ReportedMonth)), today))

----------------------------------------------------------------------------
(* Properties of the selection, checked under SpecSelection *)

PartnerNames == DOMAIN partner_comparison.partners

Names(list) == {list[i][1] : i \in DOMAIN list}

\* list holds the up-to-3 partners of elig that come first by pct_change
\* (highest first when reverse, lowest first otherwise), in that order
IsSelection(list, elig, reverse) ==
    /\ Len(list) = IF Cardinality(elig) < 3 THEN Cardinality(elig) ELSE 3
    /\ Names(list) \subseteq elig
    /\ Cardinality(Names(list)) = Len(list)
    /\ \A i \in DOMAIN list : list[i][2] = partner_comparison.partners[list[i][1]]
    /\ \A i, j \in DOMAIN list :
          i < j => ~GoesBefore(list[j], list[i], "pct_change", reverse)
    /\ \A p \in elig \ Names(list) : \A i \in DOMAIN list :
          ~GoesBefore(<<p, partner_comparison.partners[p]>>, list[i],
                      "pct_change", reverse)

\* C19: leaders are the up-to-3 partners of highest pct_change among those
\* with current >= 5, laggards the up-to-3 partners of lowest pct_change
\* among those with prior > 0, and no key starting with '_' is in leaders,
\* laggards or top_partners.
LeaderLaggardSelection ==
    Returned =>
        /\ IsSelection(metrics.leaders,
                       {p \in PartnerNames :
                           partner_comparison.partners[p].current >= 5}, TRUE)
        /\ IsSelection(metrics.laggards,
                       {p \in PartnerNames :
                           partner_comparison.partners[p].prior > 0}, FALSE)
        /\ \A k \in Names(metrics.leaders) \cup Names(metrics.laggards)
                    \cup Names(metrics.top_partners) :
              ~StartsWithUnderscore(k) /\ k \in PartnerNames

\* metrics of a comparison with metadata entries in which four partners
\* qualify as leaders and only one as laggard
SelectionWitness ==
    /\ Returned
    /\ partner_comparison.yoy_total.present
    /\ partner_comparison.today_partial.present
    /\ Cardinality({p \in PartnerNames :
                       partner_comparison.partners[p].current >= 5}) = 4
    /\ Cardinality({p \in PartnerNames :
                       partner_comparison.partners[p].prior > 0}) = 1
    /\ Len(metrics.leaders) = 3
    /\ Len(metrics.laggards) = 1

----------------------------------------------------------------------------
(* The entity column of the grid, checked under SpecSummary *)

GridKeys == {IdxOf(grid.rows[i]) : i \in DOMAIN grid.rows}

\* the keys of the uploaded rows, with or without their entity
UploadKeys(withEntity) ==
    UNION {{[date |-> parse_dates_to_month_end(f.rows[i].date),
             metric |-> f.rows[i].metric,
             entity |-> IF withEntity THEN f.rows[i].entity ELSE NoEntity] :
               i \in DOMAIN f.rows} : f \in {actuals, plan}}

KeyedWithoutEntity == ~grid.hasEntity /\ GridKeys = UploadKeys(FALSE)
KeyedWithEntity == grid.hasEntity /\ GridKeys = UploadKeys(TRUE)

\* C20 as stated: when only one of the two uploads has an entity column the
\* grid has none and is keyed by (date, metric); when both have one the grid
\* is keyed by (date, metric, entity).
EntityColumnOfGrid ==
    apc = "aligned" =>
        /\ (actuals.hasEntity # plan.hasEntity) => KeyedWithoutEntity
        /\ (actuals.hasEntity /\ plan.hasEntity) => KeyedWithEntity

\* an upload carries the entity column when it has one or has no rows
CarriesEntity(frame) == frame.hasEntity \/ frame.rows = <<>>

\* C20, amended: an upload without rows counts as carrying the entity
\* column. When only one of the two uploads carries it the grid has no
\* entity column and is keyed by (date, metric); when both carry it the grid
\* is keyed by (date, metric, entity).
EntityColumnOfGridCarried ==
    apc = "aligned" =>
        /\ (CarriesEntity(actuals) # CarriesEntity(plan)) => KeyedWithoutEntity
        /\ (CarriesEntity(actuals) /\ CarriesEntity(plan)) => KeyedWithEntity

\* Actual rows with entities aligned with Plan rows without: the entities
\* are dropped
EntityDroppedWitness ==
    /\ apc = "aligned"
    /\ actuals.hasEntity /\ actuals.rows # <<>>
    /\ ~plan.hasEntity /\ plan.rows # <<>>
    /\ KeyedWithoutEntity

----------------------------------------------------------------------------
(* Rows without a period, checked under SpecAlign *)

\* the periods of the uploads
UploadPeriods == {parse_dates_to_month_end(d) : d \in RawDates} \ {NaT}

\* the sum of the tidy input values of one period and series
InputTotal(d, s) ==
    SumValues(TidyInput, {i \in DOMAIN TidyInput :
                             TidyInput[i].date = d /\ TidyInput[i].series = s})

NoRowWithoutPeriod == \A i \in DOMAIN grid.rows : grid.rows[i].date # NaT

\* the totals of every period are the sums of the input rows of that period
RowsWithoutPeriodOutOfTotals ==
    \A d \in UploadPeriods, s \in SeriesNames :
        TotalAt(compute_totals_by_period(grid, None), s, d) = InputTotal(d, s)

\* C21: a row whose date cannot be parsed is dropped by align_series: the
\* grid has no row with a missing period, and such a row adds to the totals
\* of no period.
UnparseableDateDropped ==
    apc = "aligned" => NoRowWithoutPeriod /\ RowsWithoutPeriodOutOfTotals

\* the second half of C21 on its own
UnparseableDateOutOfTotals ==
    apc = "aligned" => RowsWithoutPeriodOutOfTotals

----------------------------------------------------------------------------
(* Automated-Daily-Report/partner_tiers.py *)

ANCHOR_PARTNERS ==
    {"Collective", "Xero Payroll", "Freshbooks", "Chase", "US Bancorp",
     "HiBob Payroll", "Lattice", "Lattice Payroll", "Vagaro Embedded Payroll"}
P1_PARTNERS ==
    {"BQE Software, Inc", "GoCo", "HR for Health", "Studio Designer",
     "Thryv, Inc."}
ANCHOR_AND_P1 == ANCHOR_PARTNERS \cup P1_PARTNERS

is_anchor_or_p1(partner_name) == partner_name \in ANCHOR_AND_P1

----------------------------------------------------------------------------
(* Automated-Daily-Report/send_slack_update.py *)

MaxRetries == 3         \* largest max_retries given to send_to_slack

\* the `ts` values of Slack responses
Timestamps == {"1767312000.000100", "1767312060.000200"}

\* what chat_postMessage does: a response with a ts, a SlackApiError, or
\* another exception (no connection)
Outcomes ==
    {[kind |-> "ok", ts |-> t] : t \in Timestamps}
    \cup {[kind |-> "SlackApiError", ts |-> ""], [kind |-> "Exception", ts |-> ""]}

\* `if timestamp:` for None or a string
TruthyStr(t) == t.some /\ t.v # ""

\* the (partner, value) lines of a message section
ListLines(list, n) ==
    [i \in DOMAIN HeadRows(list, n) |->
        [partner_name |-> list[i][1], current |-> list[i][2].current]]

NoMessage == [status |-> "none"]

\* lines 28-158: the parts of the message text that come from the file
format_slack_message(data) ==
    LET m == data.metrics
    IN [status |-> "ok",
        total_adds |-> m.mtd_adds,
        run_rate |-> m.run_rate,
        forecast |-> m.forecast,
        stretch |-> m.stretch,
        top_performers |-> ListLines(m.top_partners, 5),
        trending_up |-> ListLines(m.leaders, 3),
        trending_down |-> ListLines(m.laggards, 3),
        leads_trending_up |-> IF data.leads_data.status = "ok"
                              THEN ListLines(data.leads_data.leaders, 3) ELSE <<>>,
        leads_trending_down |-> IF data.leads_data.status = "ok"
                                THEN ListLines(data.leads_data.laggards, 3) ELSE <<>>]

\* one chat_postMessage call as the log keeps it
PostOf(text, thread, outcome) ==
    [text |-> text, thread_ts |-> thread, kind |-> outcome.kind, ts |-> outcome.ts]

\* one pass of a loop that makes one attempt more
posting_pass_extra(att, maxr, outcome) ==
    IF outcome.kind = "ok"
    THEN [pos |-> "returned", ok |-> TRUE, attempt |-> att]
    ELSE IF outcome.kind = "SlackApiError"
    THEN IF att < maxr
         THEN [pos |-> "posting", ok |-> FALSE, attempt |-> att + 1]
         ELSE [pos |-> "returned", ok |-> FALSE, attempt |-> att]
    ELSE [pos |-> "raised", ok |-> FALSE, attempt |-> att]

\* lines 173-196 and 293-316: one pass of the posting loop after the call of
\* chat_postMessage: return on a response, sleep and go on after a
\* SlackApiError unless this was the last attempt, propagate anything else
posting_pass(att, maxr, outcome) ==
    IF outcome.kind = "ok"
    THEN [pos |-> "returned", ok |-> TRUE, attempt |-> att]
    ELSE IF outcome.kind = "SlackApiError"
    THEN IF att < maxr - 1
         THEN [pos |-> "posting", ok |-> FALSE, attempt |-> att + 1]
         ELSE [pos |-> "returned", ok |-> FALSE, attempt |-> att]
    ELSE [pos |-> "raised", ok |-> FALSE, attempt |-> att]

\* lines 15-19: the module exits when the token is not set
ModuleLoad ==
    /\ spc = "load"
    /\ IF token
       THEN spc' = "main" /\ UNCHANGED exit_code
       ELSE spc' = "exited" /\ exit_code' = Some(1)
    /\ UNCHANGED <<token, message, max_retries, attempt, posts, timestamp,
                   breakdown_success>>
    /\ UNCHANGED <<alignVars, reportVars, pipelineVars>>

\* lines 321-328: load_latest_metrics (which raises without the file),
\* format_slack_message and the call of send_to_slack with its defaults
MainFormat ==
    /\ spc = "main"
    /\ IF metrics_file.present
       THEN /\ message' = format_slack_message(metrics_file)
            /\ max_retries' = 3
            /\ spc' = "call"
            /\ UNCHANGED exit_code
       ELSE /\ spc' = "exited"
            /\ exit_code' = Some(1)
            /\ UNCHANGED <<message, max_retries>>
    /\ UNCHANGED <<token, attempt, posts, timestamp, breakdown_success>>
    /\ UNCHANGED <<alignVars, reportVars, pipelineVars>>

\* lines 165-173 and 198: the token check and the entry of the loop, which
\* has no pass when max_retries is 0
SendToSlackEnter ==
    /\ spc = "call"
    /\ attempt' = 0
    /\ timestamp' = None
    /\ spc' = IF token /\ max_retries > 0 THEN "posting" ELSE "returned"
    /\ UNCHANGED <<token, message, max_retries, posts, breakdown_success,
                   exit_code>>
    /\ UNCHANGED <<alignVars, reportVars, pipelineVars>>

\* lines 174-196: one pass of the loop of send_to_slack
SendToSlackPost ==
    /\ spc = "posting"
    /\ \E outcome \in Outcomes :
          LET next == posting_pass(attempt, max_retries, outcome)
          IN /\ posts' = Append(posts, PostOf("message", None, outcome))
             /\ attempt' = next.attempt
             /\ spc' = next.pos
             /\ timestamp' = IF next.ok THEN Some(outcome.ts) ELSE None
    /\ UNCHANGED <<token, message, max_retries, breakdown_success, exit_code>>
    /\ UNCHANGED <<alignVars, reportVars, pipelineVars>>

\* the exit code main gives for the two return values
main_returns_zero(sent, breakdown) == 0

\* lines 330-345: 0 when the message and the breakdown were sent, 1 otherwise
main_returns(sent, breakdown) ==
    IF TruthyStr(sent) /\ breakdown = "True" THEN 0 ELSE 1

\* lines 330-345 and 348: after send_to_slack: the breakdown is sent when
\* the timestamp is truthy, the script exits with 1 otherwise (also when the
\* call raised)
MainAfterSend ==
    /\ spc \in {"returned", "raised"}
    /\ IF spc = "returned" /\ TruthyStr(timestamp)
       THEN spc' = "breakdown_call" /\ UNCHANGED exit_code
       ELSE /\ spc' = "exited"
            /\ exit_code' = IF spc = "returned"
                            THEN Some(main_returns(timestamp, breakdown_success))
                            ELSE Some(1)
    /\ UNCHANGED <<token, message, max_retries, attempt, posts, timestamp,
                   breakdown_success>>
    /\ UNCHANGED <<alignVars, reportVars, pipelineVars>>

\* lines 200-293: the checks of send_partner_breakdown, the text of the
\* breakdown, the pause of 5 seconds and the entry of its loop (max_retries
\* is 3)
BreakdownEnter ==
    /\ spc = "breakdown_call"
    /\ attempt' = 0
    /\ IF TruthyStr(timestamp) /\ token
       THEN spc' = "breakdown_posting" /\ UNCHANGED breakdown_success
       ELSE spc' = "breakdown_returned" /\ breakdown_success' = "False"
    /\ UNCHANGED <<token, message, max_retries, posts, timestamp, exit_code>>
    /\ UNCHANGED <<alignVars, reportVars, pipelineVars>>

\* lines 294-316: one pass of the loop of send_partner_breakdown
BreakdownPost ==
    /\ spc = "breakdown_posting"
    /\ \E outcome \in Outcomes :
          LET next == posting_pass(attempt, 3, outcome)
          IN /\ posts' = Append(posts, PostOf("breakdown", timestamp, outcome))
             /\ attempt' = next.attempt
             /\ spc' = IF next.pos = "posting" THEN "breakdown_posting"
                       ELSE IF next.pos = "returned" THEN "breakdown_returned"
                       ELSE "breakdown_raised"
             /\ breakdown_success' =
                   IF next.pos = "returned"
                   THEN (IF next.ok THEN "True" ELSE "False")
                   ELSE breakdown_success
    /\ UNCHANGED <<token, message, max_retries, timestamp, exit_code>>
    /\ UNCHANGED <<alignVars, reportVars, pipelineVars>>

\* lines 335-341 and 348: exit(main()); an exception that left
\* send_partner_breakdown ends the script with 1
MainExit ==
    /\ spc \in {"breakdown_returned", "breakdown_raised"}
    /\ exit_code' = IF spc = "breakdown_returned"
                    THEN Some(main_returns(timestamp, breakdown_success))
                    ELSE Some(1)
    /\ spc' = "exited"
    /\ UNCHANGED <<token, message, max_retries, attempt, posts, timestamp,
                   breakdown_success>>
    /\ UNCHANGED <<alignVars, reportVars, pipelineVars>>

----------------------------------------------------------------------------
(* send_to_slack called on its own *)

\* a run date in the middle of the first month
SendDate == [y |-> MonthOf(0).y, m |-> MonthOf(0).m, d |-> 15]

\* the metrics main computes from a comparison on the run date t
MetricsOf(cmp, t) ==
    calculate_metrics(cmp, Some(t.d - 1), t, MissingCache,
                      [k \in InexactTies(cmp, Some(t.d - 1), t, MissingCache) |-> 0])

\* the files update_gep_report.main leaves: from the sample data and from
\* warehouse data of two partners
ReportFiles(t) ==
    {save_metrics_json(MetricsOf(cmp, t), cmp, NoLeads, t) :
        cmp \in {c \in {SampleData} \cup DrawnComparisons(t) :
                    ~print_summary_raises(MetricsOf(c, t))}}

SendToSlackInit ==
    /\ token = TRUE
    /\ message \in {format_slack_message(f) : f \in ReportFiles(SendDate)}
    /\ max_retries \in 0..MaxRetries
    /\ attempt = 0
    /\ posts = <<>>
    /\ timestamp = None
    /\ breakdown_success = "none"
    /\ spc = "call"
    /\ exit_code = None

SendToSlackNext == SendToSlackEnter \/ SendToSlackPost

SendToSlackStart == AlignIdle /\ ReportIdle /\ SendToSlackInit /\ PipelineIdle

SpecSendToSlack == SendToSlackStart /\ [][SendToSlackNext]_vars

----------------------------------------------------------------------------
(* Properties of send_to_slack, checked under SpecSendToSlack *)

SendReturned == spc = "returned"
SendEnded == spc \in {"returned", "raised"}

AllAttemptsFailed ==
    /\ Len(posts) = max_retries
    /\ \A i \in DOMAIN posts : posts[i].kind = "SlackApiError"

\* C22: with max_retries >= 1, send_to_slack makes between 1 and
\* max_retries posting attempts, makes no attempt after one that succeeded,
\* returns the timestamp of the attempt that succeeded, and returns None
\* exactly when all max_retries attempts failed with a SlackApiError.
RetryDiscipline ==
    max_retries >= 1 =>
        /\ Len(posts) <= max_retries
        /\ SendEnded => Len(posts) >= 1
        /\ \A i \in DOMAIN posts : posts[i].kind = "ok" => i = Len(posts)
        /\ \A i \in DOMAIN posts :
              posts[i].kind = "ok" =>
                  SendReturned /\ timestamp = Some(posts[i].ts)
        /\ (SendReturned /\ timestamp # None) =>
              posts[Len(posts)].kind = "ok"
        /\ AllAttemptsFailed => SendReturned /\ timestamp = None
        /\ (SendReturned /\ timestamp = None) => AllAttemptsFailed

\* the third of three attempts succeeded after two SlackApiErrors
RetryThenSuccessWitness ==
    /\ max_retries = 3
    /\ SendReturned
    /\ Len(posts) = 3
    /\ posts[1].kind = "SlackApiError"
    /\ posts[2].kind = "SlackApiError"
    /\ posts[3].kind = "ok"
    /\ timestamp = Some(posts[3].ts)

\* all three attempts failed and None was returned
AllFailedWitness ==
    /\ max_retries = 3
    /\ SendReturned
    /\ AllAttemptsFailed
    /\ timestamp = None

----------------------------------------------------------------------------
(* The script send_slack_update.py run on its own *)

SendInit ==
    /\ token \in BOOLEAN
    /\ metrics_file \in {NoFile} \cup ReportFiles(SendDate)
    /\ today = SendDate
    /\ df = {}
    /\ cache = MissingCache
    /\ days_arg = None
    /\ partner_comparison = NoComparison
    /\ metrics = NoMetrics
    /\ leads_data = NoLeads
    /\ pc = "idle"
    /\ fetched = FALSE
    /\ message = NoMessage
    /\ max_retries = 0
    /\ attempt = 0
    /\ posts = <<>>
    /\ timestamp = None
    /\ breakdown_success = "none"
    /\ spc = "load"
    /\ exit_code = None

SendNext ==
    \/ ModuleLoad
    \/ MainFormat
    \/ SendToSlackEnter
    \/ SendToSlackPost
    \/ MainAfterSend
    \/ BreakdownEnter
    \/ BreakdownPost
    \/ MainExit

SendStart == AlignIdle /\ SendInit /\ PipelineIdle

SpecSend == SendStart /\ [][SendNext]_vars

----------------------------------------------------------------------------
(* Properties of send_slack_update.main, checked under SpecSend *)

Posted(text) == {i \in DOMAIN posts : posts[i].text = text /\ posts[i].kind = "ok"}
Attempted(text) == {i \in DOMAIN posts : posts[i].text = text}

\* C25: every attempt to post the breakdown comes after a successful post
\* of the main message and is a thread reply to the ts of that post; when
\* the script has ended its exit code is 0 if and only if both the message
\* and the breakdown were posted; without a successful main message no
\* breakdown attempt is made.
BreakdownFollowsMessage ==
    /\ \A i \in Attempted("breakdown") :
          \E j \in Posted("message") :
              j < i /\ posts[i].thread_ts = Some(posts[j].ts)
    /\ Posted("message") = {} => Attempted("breakdown") = {}
    /\ exit_code = Some(0) =>
          Posted("message") # {} /\ Posted("breakdown") # {}
    /\ (spc = "exited" /\ Posted("message") # {} /\ Posted("breakdown") # {}) =>
          exit_code = Some(0)

\* the message went out at the second attempt and the breakdown at the third
ThreadReplyWitness ==
    /\ spc = "exited"
    /\ exit_code = Some(0)
    /\ Len(posts) = 5
    /\ posts[2].text = "message" /\ posts[2].kind = "ok"
    /\ posts[3].text = "breakdown" /\ posts[3].kind = "SlackApiError"
    /\ posts[5].text = "breakdown" /\ posts[5].kind = "ok"
    /\ posts[5].thread_ts = Some(posts[2].ts)

\* the message went out, the breakdown did not, and the exit code is 1
BreakdownFailedWitness ==
    /\ spc = "exited"
    /\ exit_code = Some(1)
    /\ Posted("message") # {}
    /\ Cardinality(Attempted("breakdown")) = 3
    /\ Posted("breakdown") = {}

----------------------------------------------------------------------------
(* Automated-Daily-Report/refresh_targets_simple.py *)

\* lines 18-25
MONTHLY_TARGETS(mo) ==
    IF mo.y = 2026 /\ mo.m = 1
    THEN [found |-> TRUE, forecast |-> 933, stretch |-> 1534, low |-> 987]
    ELSE IF mo.y = 2026 /\ mo.m \in 2..6
    THEN [found |-> TRUE, forecast |-> 948, stretch |-> 1534, low |-> 987]
    ELSE [found |-> FALSE, forecast |-> 0, stretch |-> 0, low |-> 0]

\* lines 73-81: the record written to the cache file
cache_data(mo, targets) ==
    CacheOf(mo, [forecast |-> Some(targets.forecast),
                 stretch |-> Some(targets.stretch),
                 low |-> Some(targets.low)])

\* lines 28-92: the outcomes of one call: the value returned (or "raised")
\* and the cache file after it. A cache of the month is kept as it is;
\* printing it raises when one of its keys is missing (a missing key and a
\* null are both None here). Opening the file for writing may fail.
update_cache_for_current_month(t, c) ==
    LET mo == [y |-> t.y, m |-> t.m]
        cur == MONTHLY_TARGETS(mo)
        prev == MONTHLY_TARGETS(PrevMonth(mo))
        targets == IF cur.found THEN cur ELSE prev
    IN IF ~cur.found /\ ~prev.found THEN {[ret |-> "False", cache |-> c]}
       ELSE IF c.state = "ok" /\ c.month = mo
       THEN {[ret |-> "True", cache |-> c]}
            \cup (IF None \in {c.forecast, c.stretch, c.low}
                  THEN {[ret |-> "raised", cache |-> c]} ELSE {})
       ELSE {[ret |-> "True", cache |-> cache_data(mo, targets)],
             [ret |-> "raised", cache |-> c]}

----------------------------------------------------------------------------
(* refresh_targets_simple.py run over the months *)

\* the months of the runs: from before the targets table to after it
RefreshMonths ==
    {[y |-> 2025, m |-> 12]} \cup {[y |-> 2026, m |-> m] : m \in 1..8}

\* the run dates: the first and the fifteenth of each month
RefreshDates ==
    {[y |-> mo.y, m |-> mo.m, d |-> d] : mo \in RefreshMonths, d \in {1, 15}}

Later(a, b) ==
    (a.y * 12 + a.m) * 100 + a.d < (b.y * 12 + b.m) * 100 + b.d

RefreshInit ==
    /\ today \in RefreshDates
    /\ cache \in {MissingCache, CorruptCache}
    /\ refreshed = "none"
    /\ df = {}
    /\ days_arg = None
    /\ partner_comparison = NoComparison
    /\ metrics = NoMetrics
    /\ leads_data = NoLeads
    /\ pc = "idle"
    /\ fetched = FALSE
    /\ metrics_file = NoFile
    /\ steps = <<>>
    /\ ppc = "idle"
    /\ exit_status = None

\* lines 95-102: one run of the script
RefreshRun ==
    /\ refreshed = "none"
    /\ \E out \in update_cache_for_current_month(today, cache) :
          /\ refreshed' = out.ret
          /\ cache' = out.cache
    /\ UNCHANGED <<today, df, days_arg, partner_comparison, metrics, leads_data,
                   pc, fetched, metrics_file, steps, ppc, exit_status>>
    /\ UNCHANGED <<alignVars, sendVars>>

\* time passes until the next run
NextRunDate ==
    /\ refreshed # "none"
    /\ \E t \in RefreshDates : Later(today, t) /\ today' = t
    /\ refreshed' = "none"
    /\ UNCHANGED <<cache, df, days_arg, partner_comparison, metrics, leads_data,
                   pc, fetched, metrics_file, steps, ppc, exit_status>>
    /\ UNCHANGED <<alignVars, sendVars>>

RefreshNext == RefreshRun \/ NextRunDate

RefreshStart == AlignIdle /\ RefreshInit /\ SendIdle

SpecRefresh == RefreshStart /\ [][RefreshNext]_vars

----------------------------------------------------------------------------
(* Properties of update_cache_for_current_month, checked under SpecRefresh *)

\* the cache holds the targets of the table for the month of the run
CacheHoldsTableEntry ==
    /\ cache.state = "ok"
    /\ cache.month = ThisMonth
    /\ MONTHLY_TARGETS(ThisMonth).found
    /\ cache.forecast = Some(MONTHLY_TARGETS(ThisMonth).forecast)
    /\ cache.stretch = Some(MONTHLY_TARGETS(ThisMonth).stretch)
    /\ cache.low = Some(MONTHLY_TARGETS(ThisMonth).low)

\* C28: after any sequence of runs over the months, when
\* update_cache_for_current_month has returned True the cache is of the
\* current month and holds the forecast, stretch and low of the
\* MONTHLY_TARGETS entry of that month; a call that returns False leaves the
\* cache file as it was.
CacheMatchesTableAfterRefresh ==
    /\ [](refreshed = "True" => CacheHoldsTableEntry)
    /\ [][refreshed' = "False" => cache' = cache]_vars

\* the second half of C28 on its own
FailedRefreshKeepsCache == [][refreshed' = "False" => cache' = cache]_vars

\* the first half of C28 for the months of the table
CacheMatchesTableInTableMonths ==
    (refreshed = "True" /\ MONTHLY_TARGETS(ThisMonth).found) => CacheHoldsTableEntry

----------------------------------------------------------------------------
(* Automated-Daily-Report/run_daily_report.py *)

\* a run_script that takes every exit code for a success
run_script_always(code) == TRUE

\* lines 11-32: subprocess.run(check=True) raises CalledProcessError on a
\* non-zero exit code, which gives False; True otherwise
run_script(code) == code = 0

\* the log entry of a script: its exit code is None while it runs
StepOf(script, code) == [script |-> script, code |-> code]

\* lines 42-45: refresh_targets_simple.py, whose failure is only a warning.
\* The script exits with 0 whatever update_cache_for_current_month returns
\* and with 1 when it raises.
RunRefresh ==
    /\ ppc = "refresh"
    /\ \E out \in update_cache_for_current_month(today, cache) :
          /\ refreshed' = out.ret
          /\ cache' = out.cache
          /\ steps' = Append(steps,
                        StepOf("refresh_targets_simple.py",
                               Some(IF out.ret = "raised" THEN 1 ELSE 0)))
    /\ ppc' = "update_start"
    /\ UNCHANGED exit_status
    /\ UNCHANGED <<today, df, days_arg, partner_comparison, metrics, leads_data,
                   pc, fetched, metrics_file>>
    /\ UNCHANGED <<alignVars, sendVars>>

\* line 48: update_gep_report.py is started
StartUpdate ==
    /\ ppc = "update_start"
    /\ steps' = Append(steps, StepOf("update_gep_report.py", None))
    /\ pc' = "start"
    /\ ppc' = "update"
    /\ UNCHANGED <<exit_status, refreshed>>
    /\ UNCHANGED <<today, df, cache, days_arg, partner_comparison, metrics,
                   leads_data, fetched, metrics_file>>
    /\ UNCHANGED <<alignVars, sendVars>>

\* lines 48-50: update_gep_report.py has ended, with 0 from `exit(main())`
\* or with 1 from an exception; a failure ends the process with status 1
FinishUpdate ==
    /\ ppc = "update"
    /\ pc \in {"exited", "crashed"}
    /\ LET code == IF pc = "exited" THEN 0 ELSE 1
       IN /\ steps' = [steps EXCEPT ![Len(steps)].code = Some(code)]
          /\ IF run_script(code)
             THEN ppc' = "send_start" /\ UNCHANGED exit_status
             ELSE ppc' = "exited" /\ exit_status' = Some(1)
    /\ UNCHANGED refreshed
    /\ UNCHANGED <<alignVars, reportVars, sendVars>>

\* line 53: send_slack_update.py is started
StartSend ==
    /\ ppc = "send_start"
    /\ steps' = Append(steps, StepOf("send_slack_update.py", None))
    /\ spc' = "load"
    /\ ppc' = "send"
    /\ UNCHANGED <<exit_status, refreshed>>
    /\ UNCHANGED <<token, message, max_retries, attempt, posts, timestamp,
                   breakdown_success, exit_code>>
    /\ UNCHANGED <<alignVars, reportVars>>

\* lines 53-60: send_slack_update.py has ended; a failure ends the process
\* with status 1, and main returns after a success
FinishSend ==
    /\ ppc = "send"
    /\ spc = "exited"
    /\ steps' = [steps EXCEPT ![Len(steps)].code = exit_code]
    /\ ppc' = "exited"
    /\ exit_status' = IF run_script(exit_code.v) THEN Some(0) ELSE Some(1)
    /\ UNCHANGED refreshed
    /\ UNCHANGED <<alignVars, reportVars, sendVars>>

----------------------------------------------------------------------------
(* One run of the pipeline: run_daily_report.main *)

\* run dates: the first and the second day of two months
PipelineDates == {t \in Dates : t.d \in {1, 2} /\ [y |-> t.y, m |-> t.m] \in
                                                   {MonthOf(0), MonthOf(1)}}

\* the warehouse holds at most one row
PipelineFrames(t) == SmallSubsets(NearEvents(t), 1)

PipelineInit ==
    /\ today \in PipelineDates
    /\ df \in PipelineFrames(today)
    /\ cache \in ReportCaches(today)
    /\ days_arg = None
    /\ partner_comparison = NoComparison
    /\ metrics = NoMetrics
    /\ leads_data = NoLeads
    /\ fetched = FALSE
    /\ metrics_file = NoFile
    /\ pc = "idle"
    /\ token \in BOOLEAN
    /\ message = NoMessage
    /\ max_retries = 0
    /\ attempt = 0
    /\ posts = <<>>
    /\ timestamp = None
    /\ breakdown_success = "none"
    /\ spc = "idle"
    /\ exit_code = None
    /\ steps = <<>>
    /\ ppc = "refresh"
    /\ exit_status = None
    /\ refreshed = "none"

PipelineNext ==
    \/ RunRefresh
    \/ StartUpdate
    \/ MainParse
    \/ MainSampleData
    \/ MainCalculate
    \/ MainLeads
    \/ MainSave
    \/ FinishUpdate
    \/ StartSend
    \/ ModuleLoad
    \/ MainFormat
    \/ SendToSlackEnter
    \/ SendToSlackPost
    \/ MainAfterSend
    \/ BreakdownEnter
    \/ BreakdownPost
    \/ MainExit
    \/ FinishSend

PipelineStart == AlignIdle /\ PipelineInit

SpecPipeline == PipelineStart /\ [][PipelineNext]_vars

----------------------------------------------------------------------------
(* Properties of run_daily_report.main, checked under SpecPipeline *)

ScriptOrder ==
    <<"refresh_targets_simple.py", "update_gep_report.py", "send_slack_update.py">>

StepEnded(i) == i <= Len(steps) /\ steps[i].code # None
StepFailed(i) == StepEnded(i) /\ steps[i].code # Some(0)
SendNotRun == Len(steps) < 3 /\ spc = "idle" /\ posts = <<>>

\* C24: the scripts run in the order refresh targets, update report, send to
\* Slack, one after the other; the send script is started only after the
\* update script has exited with 0; when the update script fails the process
\* has exited with status 1 and the send script has not run; whatever the
\* refresh script's exit code, the process goes on to start the update
\* script.
StepsInOrder ==
    /\ Len(steps) <= 3
    /\ \A i \in DOMAIN steps : steps[i].script = ScriptOrder[i]
    /\ \A i \in DOMAIN steps : i < Len(steps) => StepEnded(i)
    /\ (Len(steps) = 3 \/ spc # "idle") => steps[2].code = Some(0)
    /\ StepFailed(2) => ppc = "exited" /\ exit_status = Some(1) /\ SendNotRun
    /\ Len(steps) = 1 => StepEnded(1) /\ ppc = "update_start"
    /\ exit_status = Some(0) => \A i \in 2..3 : steps[i].code = Some(0)

\* the refresh script failed and the two later scripts ran to a success
RefreshFailedRunCompleted ==
    /\ StepFailed(1)
    /\ Len(steps) = 3
    /\ steps[2].code = Some(0)
    /\ steps[3].code = Some(0)
    /\ exit_status = Some(0)

\* the update script failed and the process exited with 1 without a post
UpdateFailedRunAborted ==
    /\ StepFailed(2)
    /\ ppc = "exited"
    /\ exit_status = Some(1)
    /\ SendNotRun


\* C26: a report is posted to Slack only when its metrics were computed
\* from warehouse data fetched in the same pipeline run: no call of
\* chat_postMessage succeeds in a run whose Snowflake fetch gave nothing.
PostedOnlyFromWarehouseData ==
    \A i \in DOMAIN posts : posts[i].kind = "ok" => fetched

\* the report of a run without warehouse data was posted with its breakdown
SampleDataReportPosted ==
    /\ ~fetched
    /\ partner_comparison = SampleData
    /\ exit_status = Some(0)
    /\ Posted("message") # {}
    /\ Posted("breakdown") # {}

\* the names of the partner lists of the main message
ListedPartners ==
    {message.top_performers[i].partner_name : i \in DOMAIN message.top_performers}
    \cup {message.trending_up[i].partner_name : i \in DOMAIN message.trending_up}
    \cup {message.trending_down[i].partner_name : i \in DOMAIN message.trending_down}

\* the adds of all partners of the comparison
AddsOfAllPartners ==
    SetSum(DOMAIN partner_comparison.partners,
           [p \in DOMAIN partner_comparison.partners |->
               partner_comparison.partners[p].current])

\* C23: every partner named in the partner lists of the main message (top 5
\* performers, trending up, trending down) is an Anchor or P1 partner, and
\* the total of the message counts the adds of all partners.
ListedPartnersAreAnchorOrP1 ==
    message.status = "ok" =>
        /\ \A p \in ListedPartners : is_anchor_or_p1(p)
        /\ message.total_adds = AddsOfAllPartners

\* the second half of C23 on its own
TotalCountsAllPartners ==
    message.status = "ok" => message.total_adds = AddsOfAllPartners

\* the P2 partner Heard is named under trending down
HeardListed ==
    /\ message.status = "ok"
    /\ \E i \in DOMAIN message.trending_down :
          message.trending_down[i].partner_name = "Heard"
    /\ ~is_anchor_or_p1("Heard")

----------------------------------------------------------------------------
(* The targets of calculate_metrics, checked under SpecMetrics *)

\* the last day of the window the report of the run date describes
ReportedDay ==
    LET w == ReportingWindow(today)
    IN [y |-> w.year, m |-> w.month, d |-> w.day]

TargetsAreOf(t) ==
    LET tg == get_monthly_targets(t, cache)
    IN /\ metrics.forecast = tg.forecast
       /\ metrics.stretch = tg.stretch
       /\ metrics.low = tg.low

\* C27: the targets of the metrics (against which attainment and run rate
\* are measured) are the targets of the month of the reported window, for
\* every run date, the 1st of a month included, when the window is the
\* previous month.
TargetsOfReportedMonth ==
    metrics.status = "ok" => TargetsAreOf(ReportedDay)

\* C27 for the run dates after the 1st
TargetsOfReportedMonthAfterFirst ==
    (metrics.status = "ok" /\ today.d # 1) => TargetsAreOf(ReportedDay)

\* on the 1st the targets are those of the month that begins
TargetsOfNewMonthOnFirst ==
    /\ metrics.status = "ok"
    /\ today.d = 1
    /\ days_arg = None
    /\ TargetsAreOf(today)
    /\ ~TargetsAreOf(ReportedDay)

----------------------------------------------------------------------------
(* The leaders and laggards lists, checked under SpecSelection *)

ListNames(list) == {list[i][1] : i \in DOMAIN list}

\* the comparison of the state read as a leads comparison, its counts
\* doubled to reach the threshold of 10 leads
AsLeadsComparison ==
    [partners |-> [p \in DOMAIN partner_comparison.partners |->
                     LeadsCompare(2 * partner_comparison.partners[p].current,
                                  2 * partner_comparison.partners[p].prior)],
     order |-> partner_comparison.order,
     yoy_total |-> NoYoy,
     today_partial |-> NoPartial]

AddsListsDisjoint ==
    ListNames(metrics.leaders) \cap ListNames(metrics.laggards) = {}

\* the leads lists of parse_leads_data have no partner in common
LeadsListsDisjoint ==
    ListNames(LeadsLeaders(AsLeadsComparison))
        \cap ListNames(LeadsLaggards(AsLeadsComparison)) = {}

\* C30: no partner is in both the leaders list and the laggards list of a
\* report, for the adds lists of calculate_metrics and for the leads lists
\* of parse_leads_data.
NoPartnerInBothLists ==
    metrics.status = "ok" => AddsListsDisjoint /\ LeadsListsDisjoint

\* a partner of at least 5 adds with prior adds is a leader and a laggard
LeaderAndLaggard ==
    /\ metrics.status = "ok"
    /\ \E p \in SelectionPartners :
          /\ partner_comparison.partners[p].current >= 5
          /\ partner_comparison.partners[p].prior > 0
          /\ p \in ListNames(metrics.leaders) \cap ListNames(metrics.laggards)

\* the leads lists are filled: a partner on each
LeadsListsFilled ==
    /\ LeadsLeaders(AsLeadsComparison) # <<>>
    /\ LeadsLaggards(AsLeadsComparison) # <<>>

----------------------------------------------------------------------------
(* The kpi functions on amounts whose sums are rounded *)

\* an amount at the end of the range of exact integers, and a small one
VarianceValues == {[num |-> TRUE, v |-> TwoTo(FloatBits)], [num |-> TRUE, v |-> 1]}

\* rows of a day of January, and rows of a small amount of a day of February
VarianceRows(hasEntity) ==
    {r \in [date : {[m |-> 1, d |-> 10], [m |-> 2, d |-> 5]}, metric : Metrics,
            value : VarianceValues,
            entity : IF hasEntity THEN Entities ELSE {NoEntity}] :
        r.date.m = 2 => r.value.v = 1}

\* two rows of actuals and one row of plan
VarianceInit ==
    /\ \E h \in BOOLEAN :
          /\ actuals \in {[hasEntity |-> h, rows |-> r] :
                             r \in SeqOfLen(VarianceRows(h), 2)}
          /\ plan \in {[hasEntity |-> h, rows |-> r] :
                          r \in SeqOfLen(VarianceRows(h), 1)}
    /\ grid = NoGrid
    /\ apc = "input"
    /\ period = None
    /\ entity = None
    /\ top_n = 5
    /\ summary = NoSummary
    /\ totals_table = <<>>

VarianceStart == VarianceInit /\ ReportIdle /\ SendIdle /\ PipelineIdle

SpecVariance == VarianceStart /\ [][AlignNext]_vars

----------------------------------------------------------------------------
(* Variance decomposition, checked under SpecVariance *)

\* the sum of the Variance column of a frame
MetricVarianceSum(frame) ==
    SetSum(DOMAIN frame, [i \in DOMAIN frame |-> frame[i].Variance])

MetricVariancesAddUp ==
    \A frame \in compute_variance_by_metric_for_period(grid, summary.period, entity) :
        MetricVarianceSum(frame) = summary.total_variance

TableVarianceIsTotal ==
    LET table == describe_totals_table(grid, entity)
    IN \A i \in DOMAIN table :
          table[i].date = summary.period =>
              table[i].Variance = summary.total_variance

\* no sum of the amounts of the period is rounded: their absolute values
\* add up to an integer the float format holds exactly
AmountsAddExactly ==
    LET rows == FilterEntity(grid, entity)
        sel == {i \in DOMAIN rows : rows[i].date = summary.period}
    IN SetSum(sel, [i \in DOMAIN rows |-> Abs(rows[i].value)]) <= TwoTo(FloatBits)

\* C29 as stated: for every aligned grid, period and entity filter, the sum
\* of Variance over the rows of compute_variance_by_metric_for_period equals
\* total_variance of build_variance_summary, which equals the Variance of
\* the describe_totals_table row of that period.
VarianceDecomposition ==
    Summarized => MetricVariancesAddUp /\ TableVarianceIsTotal

\* C29 amended: total_variance equals the Variance of the table row of the
\* period, and it equals the sum of Variance over the metrics when no sum
\* of the amounts of the period is rounded.
VarianceDecompositionOfExactSums ==
    Summarized =>
        /\ TableVarianceIsTotal
        /\ AmountsAddExactly => MetricVariancesAddUp

\* a period with amounts on both metrics, whose variances are not zero and
\* add up to the total, which the table shows
DecompositionWitness ==
    /\ Summarized
    /\ AmountsAddExactly
    /\ summary.total_variance # 0
    /\ \E frame \in compute_variance_by_metric_for_period(grid, summary.period, entity) :
          /\ Len(frame) = 2
          /\ frame[1].Variance # 0
          /\ frame[2].Variance # 0
          /\ MetricVarianceSum(frame) = summary.total_variance
    /\ \E i \in DOMAIN describe_totals_table(grid, entity) :
          /\ describe_totals_table(grid, entity)[i].date = summary.period
          /\ describe_totals_table(grid, entity)[i].Variance = summary.total_variance

\* a sum of the period was rounded and the metrics do not add up to the total
RoundedTotalWitness ==
    /\ Summarized
    /\ ~AmountsAddExactly
    /\ ~MetricVariancesAddUp

====
